---- MODULE Spec2Model ----
(***************************************************************************)
(* A model of the NRRD header grammar engine and payload codec of nrrd-rs: *)
(* the typed field registry (header_defs.rs), the header assembler and the *)
(* top-level read/write operations (lib.rs) and the byte-level readers     *)
(* (io.rs).  Text is modelled as strings, read character by character.     *)
(***************************************************************************)
EXTENDS Integers, Sequences, FiniteSets, TLC

VARIABLES
    pc,        \* position of the operation in progress
    H0,        \* the header record an operation is given
    lines0,    \* the line collection an operation is given
    lines,     \* the line collection as the assembler leaves it
    h,         \* the header record an operation produced
    text,      \* rendered header text
    text2,     \* header text rendered from the parsed record
    df,        \* data-file directive whose paths are expanded
    paths,     \* expanded paths
    fs,        \* file system: path -> bytes of the file
    wr,        \* write request / read request in progress
    rd,        \* read_payload locals: resolved paths, buffer, chunk index
    opened,    \* payload files opened so far, in order
    decoded    \* payload streams a decompressor has been run on, in order

vars == <<pc, H0, lines0, lines, h, text, text2, df, paths, fs, wr, rd, opened, decoded>>

\* let v = e; F(v): the value of an expression under a name
With(v, F(_)) == F(v)

(***************************************************************************)
(* Text primitives (Rust str).                                             *)
(***************************************************************************)
Ch(s, i) == SubSeq(s, i, i)

Drop(s, n) == SubSeq(s, n + 1, Len(s))

Take(s, n) == SubSeq(s, 1, n)

StartsWith(s, p) == Len(s) >= Len(p) /\ SubSeq(s, 1, Len(p)) = p

EndsWith(s, p) == Len(s) >= Len(p) /\ SubSeq(s, Len(s) - Len(p) + 1, Len(s)) = p

\* str::find: byte index of the first occurrence of pat in s, -1 for None
Find(pat, s) ==
    LET c == {i \in 0..(Len(s) - Len(pat)) : SubSeq(s, i + 1, i + Len(pat)) = pat}
    IN  IF c = {} THEN -1 ELSE CHOOSE i \in c : \A j \in c : i <= j

Contains(s, pat) == Find(pat, s) >= 0

IsWs(c) == c \in {" ", "\t", "\n", "\r"}

IsDigit(c) == c \in {"0", "1", "2", "3", "4", "5", "6", "7", "8", "9"}

DigitVal(c) ==
    CASE c = "0" -> 0 [] c = "1" -> 1 [] c = "2" -> 2 [] c = "3" -> 3
      [] c = "4" -> 4 [] c = "5" -> 5 [] c = "6" -> 6 [] c = "7" -> 7
      [] c = "8" -> 8 [] c = "9" -> 9

DigitCh(d) == Ch("0123456789", d + 1)

RECURSIVE TrimStart(_)
TrimStart(s) == IF s # "" /\ IsWs(Ch(s, 1)) THEN TrimStart(Drop(s, 1)) ELSE s

RECURSIVE TrimEnd(_)
TrimEnd(s) == IF s # "" /\ IsWs(Ch(s, Len(s))) THEN TrimEnd(Take(s, Len(s) - 1)) ELSE s

\* str::trim
Trim(s) == TrimEnd(TrimStart(s))

LowerCh(c) ==
    LET i == Find(c, "ABCDEFGHIJKLMNOPQRSTUVWXYZ")
    IN  IF i < 0 THEN c ELSE Ch("abcdefghijklmnopqrstuvwxyz", i + 1)

RECURSIVE ToLower(_)
\* str::to_lowercase / to_ascii_lowercase on ASCII text
ToLower(s) ==
    IF Len(s) <= 1 THEN (IF s = "" THEN "" ELSE LowerCh(s))
    ELSE ToLower(Take(s, Len(s) \div 2)) \o ToLower(Drop(s, Len(s) \div 2))

\* str::split(c) for a one-character separator: the pieces between the
\* separators, empty pieces kept
Split(s, c) ==
    LET at == {i \in 1..Len(s) : Ch(s, i) = c}
        nth(k) == IF k = 0 THEN 0
                  ELSE IF k > Cardinality(at) THEN Len(s) + 1
                  ELSE CHOOSE i \in at : Cardinality({j \in at : j <= i}) = k
    IN  [k \in 1..(Cardinality(at) + 1) |-> SubSeq(s, nth(k - 1) + 1, nth(k) - 1)]

RECURSIVE SplitWs(_)
\* str::split_ascii_whitespace: the maximal runs of non-whitespace
SplitWs(s) ==
    LET t == TrimStart(s)
        e == {i \in 1..Len(t) : IsWs(Ch(t, i))}
        n == IF e = {} THEN Len(t) + 1 ELSE CHOOSE i \in e : \A j \in e : i <= j
    IN  IF t = "" THEN <<>> ELSE <<Take(t, n - 1)>> \o SplitWs(Drop(t, n - 1))

StripCr(l) == IF EndsWith(l, "\r") THEN Take(l, Len(l) - 1) ELSE l

\* str::lines: split at "\n", drop one trailing "\r" of each line; a final
\* empty piece (text ending in a newline) is no line
Lines(t) ==
    With(Split(t, "\n"), LAMBDA p :
    With(IF p[Len(p)] = "" THEN SubSeq(p, 1, Len(p) - 1) ELSE p, LAMBDA q :
        [i \in 1..Len(q) |-> StripCr(q[i])]))

RECURSIVE Flatten(_)
\* the concatenation of a sequence of sequences
Flatten(ss) ==
    IF ss = <<>> THEN <<>>
    ELSE IF Len(ss) = 1 THEN ss[1]
    ELSE Flatten(SubSeq(ss, 1, Len(ss) \div 2))
         \o Flatten(SubSeq(ss, Len(ss) \div 2 + 1, Len(ss)))

RECURSIVE Join(_, _)
\* [String]::join(sep)
Join(ss, sep) ==
    IF ss = <<>> THEN ""
    ELSE IF Len(ss) = 1 THEN ss[1]
    ELSE Join(SubSeq(ss, 1, Len(ss) \div 2), sep) \o sep
         \o Join(SubSeq(ss, Len(ss) \div 2 + 1, Len(ss)), sep)

(***************************************************************************)
(* Numbers as text (Rust Display and FromStr of the integer types).        *)
(***************************************************************************)
AllDigits(s) == \A i \in 1..Len(s) : IsDigit(Ch(s, i))

RECURSIVE NatOf(_)
NatOf(s) == IF s = "" THEN 0 ELSE NatOf(Take(s, Len(s) - 1)) * 10 + DigitVal(Ch(s, Len(s)))

RECURSIVE DecNat(_)
\* Display of an unsigned integer
DecNat(n) == IF n < 10 THEN DigitCh(n) ELSE DecNat(n \div 10) \o DigitCh(n % 10)

\* Display of a signed integer
DecInt(n) == IF n < 0 THEN "-" \o DecNat(0 - n) ELSE DecNat(n)

Err == [ok |-> FALSE, v |-> 0]

\* str::parse::<usize>: an optional "+", then one or more digits
ParseUsize(s) ==
    LET d == IF StartsWith(s, "+") THEN Drop(s, 1) ELSE s
    IN  IF d # "" /\ AllDigits(d) THEN [ok |-> TRUE, v |-> NatOf(d)] ELSE Err

U8Max == 255

\* str::parse::<u8>
ParseU8(s) ==
    With(ParseUsize(s), LAMBDA r : IF r.ok /\ r.v <= U8Max THEN r ELSE Err)

\* str::parse::<isize> / parse::<i32>: an optional sign, then digits
ParseIsize(s) ==
    LET neg == StartsWith(s, "-")
        d == IF neg \/ StartsWith(s, "+") THEN Drop(s, 1) ELSE s
    IN  IF d # "" /\ AllDigits(d)
        THEN [ok |-> TRUE, v |-> IF neg THEN 0 - NatOf(d) ELSE NatOf(d)]
        ELSE Err

Abs(n) == IF n < 0 THEN 0 - n ELSE n

(***************************************************************************)
(* f64 values.  A value is finite (t is the value in tenths), NaN or an    *)
(* infinity; the texts the model renders and reads have at most one        *)
(* significant decimal.                                                    *)
(***************************************************************************)
Fin(t) == [k |-> "fin", t |-> t]

NaN == [k |-> "nan", t |-> 0]

Inf == [k |-> "inf", t |-> 0]

NegInf == [k |-> "ninf", t |-> 0]

IsInfinite(x) == x.k \in {"inf", "ninf"}

\* Display of f64 ("{}"): the shortest text that reads back as the value
FmtF64(x) ==
    CASE x.k = "nan" -> "NaN"
      [] x.k = "inf" -> "inf"
      [] x.k = "ninf" -> "-inf"
      [] OTHER ->
            (IF x.t < 0 THEN "-" ELSE "") \o DecNat(Abs(x.t) \div 10)
            \o (IF Abs(x.t) % 10 = 0 THEN "" ELSE "." \o DigitCh(Abs(x.t) % 10))

NrrdVecPrecision == 17

\* n zeros, n <= 32
Zeros(n) == SubSeq("00000000000000000000000000000000", 1, n)

\* Display of f64 with a fixed number of decimals ("{:.17}")
FmtF64Fixed(x, prec) ==
    CASE x.k = "nan" -> "NaN"
      [] x.k = "inf" -> "inf"
      [] x.k = "ninf" -> "-inf"
      [] OTHER ->
            (IF x.t < 0 THEN "-" ELSE "") \o DecNat(Abs(x.t) \div 10)
            \o "." \o DigitCh(Abs(x.t) % 10) \o Zeros(prec - 1)

FErr == [ok |-> FALSE, v |-> Fin(0)]

\* str::parse::<f64>: an optional sign, then "nan", "inf", "infinity" in any
\* case, or digits with an optional fraction (decimals after the first must
\* be zeros to stay in the modelled values; exponents are not modelled)
ParseF64(s) ==
    With(StartsWith(s, "-"), LAMBDA neg :
    With(IF neg \/ StartsWith(s, "+") THEN Drop(s, 1) ELSE s, LAMBDA u :
    With(ToLower(u), LAMBDA l :
    With(Find(".", u), LAMBDA dot :
    LET ip == IF dot < 0 THEN u ELSE Take(u, dot)
        fp == IF dot < 0 THEN "" ELSE Drop(u, dot + 1)
        d1 == IF fp = "" THEN 0 ELSE DigitVal(Ch(fp, 1))
        mag == NatOf(ip) * 10 + d1
    IN  IF l = "nan" THEN [ok |-> TRUE, v |-> NaN]
        ELSE IF l \in {"inf", "infinity"}
        THEN [ok |-> TRUE, v |-> IF neg THEN NegInf ELSE Inf]
        ELSE IF /\ AllDigits(ip) /\ AllDigits(fp) /\ (ip # "" \/ fp # "")
                /\ \A i \in 2..Len(fp) : Ch(fp, i) = "0"
        THEN [ok |-> TRUE, v |-> Fin(IF neg THEN 0 - mag ELSE mag)]
        ELSE FErr))))

\* Option<T>: None is the empty sequence, Some(v) the sequence holding v
None == <<>>

Some(v) == <<v>>

IsSome(o) == o # <<>>

(***************************************************************************)
(* The field grammar registry (header_defs.rs): per field type the line    *)
(* prefixes, FromStr and Display.  A FromStr result is [ok, v]; ok = FALSE *)
(* is a panic (or, for Comment, the Err result).                           *)
(***************************************************************************)
Patterns(T) ==
    CASE T = "Magic" -> <<"NRRD">>
      [] T = "Comment" -> <<"#">>
      [] T = "Value" -> <<":=">>
      [] T = "Space" -> <<"space: ">>
      [] T = "SpaceDimension" -> <<"space dimension: ">>
      [] T = "SpaceUnits" -> <<"space units: ">>
      [] T = "SpaceOrigin" -> <<"space origin: ">>
      [] T = "SpaceDirections" -> <<"space directions: ">>
      [] T = "Dimension" -> <<"dimension: ">>
      [] T = "DType" -> <<"type: ">>
      [] T = "BlockSize" -> <<"block size: ", "blocksize: ">>
      [] T = "Encoding" -> <<"encoding: ">>
      [] T = "Endian" -> <<"endian: ">>
      [] T = "Content" -> <<"content: ">>
      [] T = "Min" -> <<"min: ">>
      [] T = "OldMin" -> <<"min: ">>
      [] T = "Max" -> <<"max: ">>
      [] T = "OldMax" -> <<"old max: ", "oldmax: ">>
      [] T = "DataFile" -> <<"data file: ", "datafile: ">>
      [] T = "LineSkip" -> <<"line skip: ", "lineskip: ">>
      [] T = "ByteSkip" -> <<"byte skip: ", "byteskip: ">>
      [] T = "SampleUnits" -> <<"sample units: ", "sampleunits: ">>
      [] T = "Sizes" -> <<"sizes: ">>
      [] T = "Spacings" -> <<"spacings: ">>
      [] T = "Thicknesses" -> <<"thicknesses: ">>
      [] T = "AxisMins" -> <<"axis mins: ", "axismins: ">>
      [] T = "AxisMaxs" -> <<"axis maxs: ", "axismaxs: ">>
      [] T = "Centerings" -> <<"centerings: ", "centers: ">>
      [] T = "Labels" -> <<"labels: ">>
      [] T = "Units" -> <<"units: ">>
      [] T = "Kinds" -> <<"kinds: ">>

\* HeaderDef::matches: some pattern, anchored at the start of the line
Matches(T, s) ==
    With(Patterns(T), LAMBDA P : \E i \in 1..Len(P) : StartsWith(s, P[i]))

\* HeaderDef::idx: the index after the first pattern, in declaration order,
\* that occurs anywhere in the line; -1 for None
Idx(T, s) ==
    With(Patterns(T), LAMBDA P :
    With({i \in 1..Len(P) : Find(P[i], s) >= 0}, LAMBDA c :
        IF c = {} THEN -1
        ELSE With(CHOOSE i \in c : \A j \in c : i <= j, LAMBDA i :
                 Find(P[i], s) + Len(P[i]))))

\* s[idx..] for idx = T::idx(s).unwrap()
Rest(T, s) == Drop(s, Idx(T, s))

\* first value of a table of <<text, value>> rows whose text is s, "?" if none
Lookup(table, s) ==
    LET c == {i \in 1..Len(table) : table[i][1] = s}
    IN  IF c = {} THEN "?" ELSE table[CHOOSE i \in c : TRUE][2]

SErr == [ok |-> FALSE, v |-> ""]

Magic_from_str(s) == ParseU8(Trim(Rest("Magic", s)))

Magic_fmt(v) == "NRRD000" \o DecNat(v)

Dimension_from_str(s) == ParseUsize(Trim(Rest("Dimension", s)))

Dimension_fmt(v) == Patterns("Dimension")[1] \o DecNat(v)

DTypeSpellings ==
    << <<"signed char", "int8">>, <<"int8", "int8">>, <<"int8_t", "int8">>,
       <<"uchar", "uint8">>, <<"unsigned char", "uint8">>, <<"uint8", "uint8">>,
       <<"uint8_t", "uint8">>,
       <<"short", "int16">>, <<"short int", "int16">>, <<"signed short", "int16">>,
       <<"signed short int", "int16">>, <<"int16", "int16">>, <<"int16_t", "int16">>,
       <<"ushort", "uint16">>, <<"unsigned short", "uint16">>,
       <<"unsigned short int", "uint16">>, <<"uint16", "uint16">>,
       <<"uint16_t", "uint16">>,
       <<"int", "int32">>, <<"signed int", "int32">>, <<"int32", "int32">>,
       <<"int32_t", "int32">>,
       <<"uint", "uint32">>, <<"unsigned int", "uint32">>, <<"uint32", "uint32">>,
       <<"uint32_t", "uint32">>,
       <<"longlong", "int64">>, <<"long long", "int64">>, <<"long long int", "int64">>,
       <<"signed long long", "int64">>, <<"signed long long int", "int64">>,
       <<"int64", "int64">>, <<"int64_t", "int64">>,
       <<"ulonglong", "uint64">>, <<"unsigned long long", "uint64">>,
       <<"unsigned long long int", "uint64">>, <<"uint64", "uint64">>,
       <<"uint64_t", "uint64">>,
       <<"float", "f32">>, <<"double", "f64">>, <<"block", "Block">> >>

DType_from_str(s) ==
    With(Lookup(DTypeSpellings, Trim(Rest("DType", s))), LAMBDA v :
        IF v = "?" THEN SErr ELSE [ok |-> TRUE, v |-> v])

DTypeNames ==
    << <<"int8", "int8">>, <<"uint8", "uint8">>, <<"int16", "int16">>,
       <<"uint16", "uint16">>, <<"int32", "int32">>, <<"uint32", "uint32">>,
       <<"int64", "int64">>, <<"uint64", "uint64">>, <<"f32", "float">>,
       <<"f64", "double">>, <<"Block", "block">> >>

DType_fmt(v) == Patterns("DType")[1] \o Lookup(DTypeNames, v)

DTypeSizes ==
    << <<"int8", 1>>, <<"uint8", 1>>, <<"int16", 2>>, <<"uint16", 2>>,
       <<"int32", 4>>, <<"uint32", 4>>, <<"int64", 8>>, <<"uint64", 8>>,
       <<"f32", 4>>, <<"f64", 8>>, <<"Block", 1>> >>

\* DType::size
DType_size(v) == DTypeSizes[CHOOSE i \in 1..Len(DTypeSizes) : DTypeSizes[i][1] = v][2]

BlockSize_from_str(s) == ParseUsize(Trim(Rest("BlockSize", s)))

BlockSize_fmt(v) == Patterns("BlockSize")[1] \o DecNat(v)

EncodingSpellings ==
    << <<"raw", "raw">>, <<"txt", "txt">>, <<"text", "txt">>, <<"ascii", "txt">>,
       <<"gz", "rawgz">>, <<"gzip", "rawgz">>, <<"bz2", "rawbz2">>,
       <<"bzip2", "rawbz2">>, <<"hex", "hex">> >>

Encoding_from_str(s) ==
    With(Lookup(EncodingSpellings, ToLower(Trim(Rest("Encoding", s)))), LAMBDA v :
        IF v = "?" THEN SErr ELSE [ok |-> TRUE, v |-> v])

EncodingNames ==
    << <<"raw", "raw">>, <<"txt", "txt">>, <<"hex", "hex">>, <<"rawgz", "gzip">>,
       <<"rawbz2", "bzip2">> >>

Encoding_fmt(v) == Patterns("Encoding")[1] \o Lookup(EncodingNames, v)

Endian_from_str(s) ==
    With(ToLower(Trim(Rest("Endian", s))), LAMBDA t :
        IF t = "big" THEN [ok |-> TRUE, v |-> "Big"]
        ELSE IF t = "little" THEN [ok |-> TRUE, v |-> "Little"]
        ELSE SErr)

Endian_fmt(v) == Patterns("Endian")[1] \o (IF v = "Big" THEN "big" ELSE "little")

Content_from_str(s) == [ok |-> TRUE, v |-> Rest("Content", s)]

Content_fmt(v) == Patterns("Content")[1] \o v

Min_from_str(s) == ParseF64(Trim(Rest("Min", s)))

Min_fmt(v) == Patterns("Min")[1] \o FmtF64(v)

OldMin_from_str(s) == ParseF64(Trim(Rest("OldMin", s)))

OldMin_fmt(v) == Patterns("OldMin")[1] \o FmtF64(v)

Max_from_str(s) == ParseF64(Trim(Rest("Max", s)))

Max_fmt(v) == Patterns("Max")[1] \o FmtF64(v)

OldMax_from_str(s) == ParseF64(Trim(Rest("OldMax", s)))

OldMax_fmt(v) == Patterns("OldMax")[1] \o FmtF64(v)

LineSkip_from_str(s) == ParseUsize(Trim(Rest("LineSkip", s)))

LineSkip_fmt(v) == Patterns("LineSkip")[1] \o DecNat(v)

\* ByteSkip::skip(n) and ByteSkip::rev
Skip(n) == [rev |-> FALSE, skip |-> n]

Rev == [rev |-> TRUE, skip |-> 0]

ByteSkip_from_str(s) ==
    With(ParseIsize(Trim(Rest("ByteSkip", s))), LAMBDA r :
        IF ~r.ok THEN [ok |-> FALSE, v |-> Rev]
        ELSE IF r.v < 0 THEN [ok |-> TRUE, v |-> Rev]
        ELSE [ok |-> TRUE, v |-> Skip(r.v)])

ByteSkip_fmt(v) ==
    Patterns("ByteSkip")[1] \o (IF v.rev THEN "-1" ELSE DecNat(v.skip))

\* ByteSkip::to_skip
ByteSkip_to_skip(v) == IF v.rev THEN 0 ELSE v.skip

\* ByteSkip::read_tail
ByteSkip_read_tail(v) == v.rev

SampleUnits_from_str(s) == [ok |-> TRUE, v |-> Trim(Rest("SampleUnits", s))]

SampleUnits_fmt(v) == Patterns("SampleUnits")[1] \o v

SeqErr == [ok |-> FALSE, v |-> <<>>]

\* the values of a list of tokens, each read by P; a failing token fails all
ParseAll(toks, P(_)) ==
    With([i \in 1..Len(toks) |-> P(toks[i])], LAMBDA rs :
        IF \A i \in 1..Len(rs) : rs[i].ok
        THEN [ok |-> TRUE, v |-> [i \in 1..Len(rs) |-> rs[i].v]]
        ELSE SeqErr)

FmtAll(vs, F(_)) == Join([i \in 1..Len(vs) |-> F(vs[i])], " ")

\* a size: parse::<usize>().unwrap() and assert!(size > 0)
SizeTok(t) == With(ParseUsize(t), LAMBDA r : IF r.ok /\ r.v > 0 THEN r ELSE Err)

Sizes_from_str(s) == ParseAll(SplitWs(Trim(Rest("Sizes", s))), SizeTok)

\* a rendering that separates the sizes with commas, which Sizes_from_str
\* does not read back
Sizes_fmt_comma(v) == Patterns("Sizes")[1] \o Join([i \in 1..Len(v) |-> DecNat(v[i])], ",")

Sizes_fmt(v) == Patterns("Sizes")[1] \o FmtAll(v, DecNat)

RECURSIVE Product(_)
Product(v) == IF v = <<>> THEN 1 ELSE v[1] * Product(Tail(v))

\* Sizes::n_elements
Sizes_n_elements(v) == Product(v)

\* a spacing: no infinity and no 0, NaN allowed
SpacingTok(t) ==
    With(ParseF64(t), LAMBDA r :
        IF r.ok /\ ~IsInfinite(r.v) /\ r.v # Fin(0) THEN r ELSE FErr)

Spacings_from_str(s) == ParseAll(SplitWs(Trim(Rest("Spacings", s))), SpacingTok)

Spacings_fmt(v) == Patterns("Spacings")[1] \o FmtAll(v, FmtF64)

Thicknesses_from_str(s) == ParseAll(SplitWs(Trim(Rest("Thicknesses", s))), ParseF64)

Thicknesses_fmt(v) == Patterns("Thicknesses")[1] \o FmtAll(v, FmtF64)

\* an axis min or max: no infinity, NaN allowed
AxisTok(t) ==
    With(ParseF64(t), LAMBDA r : IF r.ok /\ ~IsInfinite(r.v) THEN r ELSE FErr)

AxisMins_from_str(s) == ParseAll(SplitWs(Trim(Rest("AxisMins", s))), AxisTok)

AxisMins_fmt(v) == Patterns("AxisMins")[1] \o FmtAll(v, FmtF64)

AxisMaxs_from_str(s) == ParseAll(SplitWs(Trim(Rest("AxisMaxs", s))), AxisTok)

AxisMaxs_fmt(v) == Patterns("AxisMaxs")[1] \o FmtAll(v, FmtF64)

CenteringTok(t) ==
    [ok |-> TRUE, v |-> IF t = "cell" THEN "Cell" ELSE IF t = "node" THEN "Node" ELSE "None"]

Centering_fmt(c) == IF c = "Cell" THEN "cell" ELSE IF c = "Node" THEN "node" ELSE "none"

Centerings_from_str(s) == ParseAll(SplitWs(Trim(Rest("Centerings", s))), CenteringTok)

Centerings_fmt(v) == Patterns("Centerings")[1] \o FmtAll(v, Centering_fmt)

RECURSIVE Quoted(_)
\* the matches of the regex "([^"]+)" in s, left to right, quotes stripped
Quoted(s) ==
    With(Find("\"", s), LAMBDA p :
    With(Drop(s, p + 1), LAMBDA r :
    With(Find("\"", r), LAMBDA q :
        IF p < 0 \/ q < 0 THEN <<>>
        ELSE IF q = 0 THEN Quoted(r)
        ELSE <<Take(r, q)>> \o Quoted(Drop(r, q + 1)))))

QuoteStr(x) == "\"" \o x \o "\""

Labels_from_str(s) == [ok |-> TRUE, v |-> Quoted(Trim(Rest("Labels", s)))]

Labels_fmt(v) == Patterns("Labels")[1] \o FmtAll(v, QuoteStr)

Units_from_str(s) == [ok |-> TRUE, v |-> Quoted(Trim(Rest("Units", s)))]

Units_fmt(v) == Patterns("Units")[1] \o FmtAll(v, QuoteStr)

SpaceUnits_from_str(s) == [ok |-> TRUE, v |-> Quoted(Trim(Rest("SpaceUnits", s)))]

SpaceUnits_fmt(v) == Patterns("SpaceUnits")[1] \o FmtAll(v, QuoteStr)

KindSpellings ==
    << <<"domain", "domain">>, <<"space", "space">>, <<"time", "time">>,
       <<"list", "list">>, <<"point", "point">>, <<"vector", "vector">>,
       <<"covariant-vector", "covariant_vector">>, <<"normal", "normal">>,
       <<"stub", "stub">>, <<"scalar", "scalar">>, <<"complex", "complex">>,
       <<"2-vector", "_2_vector">>, <<"3-color", "_3_color">>,
       <<"RGB-color", "RGB_color">>, <<"HSV-color", "HSV_color">>,
       <<"XYZ-color", "XYZ_color">>, <<"4-color", "_4_color">>,
       <<"RGBA-color", "RGBA_color">>, <<"3-vector", "_3_vector">>,
       <<"3-gradient", "_3_gradient">>, <<"3-normal", "_3_normal">>,
       <<"4-vector", "_4_vector">>, <<"quaternion", "quaternion">>,
       <<"2D-symmetric-matrix", "_2D_symmetric_matrix">>,
       <<"2D-masked-symmetric-matrix", "_2D_masked_symmetric_matrix">>,
       <<"2D-matrix", "_2D_matrix">>, <<"2D-masked-matrix", "_2D_masked_matrix">>,
       <<"3D-symmetric-matrix", "_3D_symmetric_matrix">>,
       <<"3D-masked-symmetric-matrix", "_3D_masked_symmetric_matrix">>,
       <<"3D-matrix", "_3D_matrix">>, <<"3D-masked-matrix", "_3D_masked_matrix">>,
       <<"none", "none">> >>

KindNames ==
    << <<"domain", "domain">>, <<"space", "space">>, <<"time", "time">>,
       <<"list", "list">>, <<"point", "point">>, <<"vector", "vector">>,
       <<"covariant_vector", "covariant-vector">>, <<"normal", "normal">>,
       <<"stub", "stub">>, <<"scalar", "scalar">>, <<"complex", "complex">>,
       <<"_2_vector", "2-vector">>, <<"_3_color", "3-color">>,
       <<"RGB_color", "RGB-color">>, <<"HSV_color", "HSV-color">>,
       <<"XYZ_color", "XYZ-color">>, <<"_4_color", "4-color">>,
       <<"RGBA_color", "RGBA-color">>, <<"_3_vector", "3-vector">>,
       <<"_3_gradient", "3-gradient">>, <<"_3_normal", "3-normal">>,
       <<"_4_vector", "4-vector">>, <<"quaternion", "quaternion">>,
       <<"_2D_symmetric_matrix", "2D-symmetric-matrix">>,
       <<"_2D_masked_symmetric_matrix", "2D-masked-symmetric-matrix">>,
       <<"_2D_matrix", "2D-matrix">>, <<"_2D_masked_matrix", "2D-masked-matrix">>,
       <<"_3D_symmetric_matrix", "3D-symmetric-matrix">>,
       <<"_3D_masked_symmetric_matrix", "3D-masked-symmetric-matrix">>,
       <<"_3D_matrix", "3D-matrix">>, <<"_3D_masked_matrix", "3D-masked-matrix">>,
       <<"none", "none">> >>

Kind_from_str(t) ==
    With(Lookup(KindSpellings, Trim(t)), LAMBDA v :
        IF v = "?" THEN SErr ELSE [ok |-> TRUE, v |-> v])

Kind_fmt(k) == Lookup(KindNames, k)

Kinds_from_str(s) == ParseAll(SplitWs(Trim(Rest("Kinds", s))), Kind_from_str)

Kinds_fmt(v) == Patterns("Kinds")[1] \o FmtAll(v, Kind_fmt)

SpaceSpellings ==
    << <<"right-anterior-superior", "RAS">>, <<"ras", "RAS">>,
       <<"left-anterior-superior", "LAS">>, <<"las", "LAS">>,
       <<"left-posterior-superior", "LPS">>, <<"lps", "LPS">>,
       <<"right-anterior-superior-time", "RAST">>, <<"rast", "RAST">>,
       <<"left-anterior-superior-time", "LAST">>, <<"last", "LAST">>,
       <<"left-posterior-superior-time", "LPST">>, <<"lpst", "LPST">>,
       <<"scanner-xyz", "scanner_xyz">>, <<"scanner-xyz-time", "scanner_xyz_time">>,
       <<"3d-right-handed", "_3D_right_handed">>,
       <<"3d-left-handed", "_3D_left_handed">>,
       <<"3d-right-handed-time", "_3D_right_handed_time">>,
       <<"3d-left-handed-time", "_3D_left_handed_time">> >>

SpaceNames ==
    << <<"RAS", "right-anterior-superior">>, <<"LAS", "left-anterior-superior">>,
       <<"LPS", "left-posterior-superior">>,
       <<"RAST", "right-anterior-superior-time">>,
       <<"LAST", "left-anterior-superior-time">>,
       <<"LPST", "left-posterior-superior-time">>,
       <<"scanner_xyz", "scanner-xyz">>, <<"scanner_xyz_time", "scanner-xyz-time">>,
       <<"_3D_right_handed", "3D-right-handed">>,
       <<"_3D_left_handed", "3D-left-handed">>,
       <<"_3D_right_handed_time", "3D-right-handed-time">>,
       <<"_3D_left_handed_time", "3D-left-handed-time">> >>

Space_from_str(s) ==
    With(Lookup(SpaceSpellings, ToLower(Trim(Rest("Space", s)))), LAMBDA v :
        IF v = "?" THEN SErr ELSE [ok |-> TRUE, v |-> v])

\* Display for Space writes the name alone, without the field prefix
Space_fmt(v) == Lookup(SpaceNames, v)

SpaceDimension_from_str(s) == ParseUsize(Trim(Rest("SpaceDimension", s)))

SpaceDimension_fmt(v) == Patterns("SpaceDimension")[1] \o DecNat(v)

\* a vector entry: empty pieces panic, the piece is parsed untrimmed
VecPiece(t) == IF t = "" THEN FErr ELSE ParseF64(t)

NrrdVec_from_str(s) ==
    With(Trim(s), LAMBDA t :
    With(SubSeq(t, 2, Len(t) - 1), LAMBDA inner :
        IF ~(StartsWith(t, "(") /\ EndsWith(t, ")")) \/ Len(t) < 2 \/ inner = ""
        THEN SeqErr
        ELSE ParseAll(Split(inner, ","), VecPiece)))

FmtVecEntry(x) == FmtF64Fixed(x, NrrdVecPrecision)

NrrdVec_fmt(v) == "(" \o Join([i \in 1..Len(v) |-> FmtVecEntry(v[i])], ",") \o ")"

SpaceOrigin_from_str(s) == NrrdVec_from_str(Trim(Rest("SpaceOrigin", s)))

SpaceOrigin_fmt(v) == Patterns("SpaceOrigin")[1] \o NrrdVec_fmt(v)

\* one space direction: the token none, or a vector
DirectionTok(t) ==
    IF Trim(t) = "none" THEN [ok |-> TRUE, v |-> None]
    ELSE With(NrrdVec_from_str(Trim(t)), LAMBDA r : [ok |-> r.ok, v |-> Some(r.v)])

Direction_fmt(d) == IF d = None THEN "none" ELSE NrrdVec_fmt(d[1])

SpaceDirections_from_str(s) ==
    ParseAll(SplitWs(Trim(Rest("SpaceDirections", s))), DirectionTok)

SpaceDirections_fmt(v) == Patterns("SpaceDirections")[1] \o FmtAll(v, Direction_fmt)

\* Value::matches_key_value: the separator anywhere in the line
Value_matches_key_value(s) == Contains(s, Patterns("Value")[1])

\* Value::key
Value_key(s) == Take(s, Idx("Value", s) - Len(":="))

Value_from_str(s) == [ok |-> TRUE, v |-> Rest("Value", s)]

Value_fmt(v) == Patterns("Value")[1] \o v

\* Comment::from_str: the text starts one character after the '#'; Err when
\* nothing is left
Comment_from_str(s) ==
    With(Idx("Comment", s), LAMBDA idx :
        IF idx + 1 >= Len(s) THEN SErr ELSE [ok |-> TRUE, v |-> Drop(s, idx + 1)])

Comment_fmt(v) == Patterns("Comment")[1] \o " " \o v

(***************************************************************************)
(* The data-file directive (header_defs.rs, DataFile).                     *)
(***************************************************************************)
SingleFile(name) ==
    [kind |-> "SingleFile", filename |-> name, fmt_string |-> "", min |-> 0,
     max |-> 0, step |-> 0, sub_dim |-> None, file_paths |-> <<>>]

FileFormat(fmt, lo, hi, st, sub) ==
    [kind |-> "FileFormat", filename |-> "", fmt_string |-> fmt, min |-> lo,
     max |-> hi, step |-> st, sub_dim |-> sub, file_paths |-> <<>>]

List(sub, files) ==
    [kind |-> "List", filename |-> "", fmt_string |-> "", min |-> 0,
     max |-> 0, step |-> 0, sub_dim |-> sub, file_paths |-> files]

\* length of the longest prefix of t that matches -?\d+ (0: none)
IntPrefixLen(t) ==
    With(IF StartsWith(t, "-") THEN 1 ELSE 0, LAMBDA o :
    With({n \in 0..(Len(t) - o) : \A i \in 1..n : IsDigit(Ch(t, o + i))}, LAMBDA nd :
    With(CHOOSE n \in nd : \A m \in nd : m <= n, LAMBDA n :
        IF n = 0 THEN 0 ELSE o + n)))

\* the whole token matches -?\d+
IsIntTok(t) == t # "" /\ IntPrefixLen(t) = Len(t)

\* The regex (?:(\S+))\s+(-?\d+)\s+(-?\d+)\s+(-?\d+)(?:\s+(-?\d+))? searched
\* in s.  A match starts at a whitespace-separated token that is followed by
\* two integer tokens and a token that begins with an integer; the optional
\* group is taken when that integer ends its token and the next token begins
\* with an integer.  The result is the index of the first token of the
\* leftmost match, 0 for no match.
FormatMatch(toks) ==
    With({j \in 1..(Len(toks) - 3) :
            /\ IsIntTok(toks[j + 1])
            /\ IsIntTok(toks[j + 2])
            /\ IntPrefixLen(toks[j + 3]) > 0}, LAMBDA c :
        IF c = {} THEN 0 ELSE CHOOSE j \in c : \A k \in c : j <= k)

DfErr == [ok |-> FALSE, v |-> SingleFile("")]

\* the directive of a match of the regex at token j: the optional group is
\* the sub-dimension
FormatDirective(toks, j) ==
    With(toks[j + 3], LAMBDA t3 :
    With(IntPrefixLen(t3), LAMBDA n3 :
    With(/\ n3 = Len(t3) /\ Len(toks) >= j + 4
         /\ IntPrefixLen(toks[j + 4]) > 0, LAMBDA hasSub :
    With(IF hasSub THEN ParseUsize(Take(toks[j + 4], IntPrefixLen(toks[j + 4])))
         ELSE Err, LAMBDA sub :
        IF hasSub /\ ~sub.ok THEN DfErr
        ELSE [ok |-> TRUE,
              v |-> FileFormat(toks[j], ParseIsize(toks[j + 1]).v,
                               ParseIsize(toks[j + 2]).v,
                               ParseIsize(Take(t3, n3)).v,
                               IF hasSub THEN Some(sub.v) ELSE None)]))))

\* the directive of a line that holds LIST at index p: the sub-dimension is
\* the digit behind "LIST " or "LIST"
ListDirective(s, p) ==
    With(Drop(s, p + 4), LAMBDA r :
    With(IF StartsWith(r, " ") THEN Drop(r, 1) ELSE r, LAMBDA r2 :
        [ok |-> TRUE,
         v |-> List(IF r2 # "" /\ IsDigit(Ch(r2, 1))
                    THEN Some(DigitVal(Ch(r2, 1))) ELSE None, <<>>)]))

DataFile_from_str(line) ==
    With(Trim(Rest("DataFile", line)), LAMBDA s :
    With(SplitWs(s), LAMBDA toks :
    With(FormatMatch(toks), LAMBDA j :
    With(Find("LIST", s), LAMBDA p :
        IF j > 0 THEN FormatDirective(toks, j)
        ELSE IF p >= 0 THEN ListDirective(s, p)
        ELSE [ok |-> TRUE, v |-> SingleFile(s)]))))

DataFile_fmt(v) ==
    LET sub == IF v.sub_dim = None THEN "" ELSE " " \o DecNat(v.sub_dim[1])
    IN  CASE v.kind = "SingleFile" -> "data file: " \o v.filename
          [] v.kind = "FileFormat" ->
                Patterns("DataFile")[1] \o v.fmt_string \o " " \o DecInt(v.min)
                \o " " \o DecInt(v.max) \o " " \o DecInt(v.step) \o sub
          [] v.kind = "List" ->
                Patterns("DataFile")[1] \o "LIST" \o sub
                \o (IF v.file_paths = <<>> THEN ""
                    ELSE "\n" \o Join(v.file_paths, "\n"))

\* sprintf!(fmt_string, i) for a pattern with one %d, %i, %Nd or %0Nd
\* conversion and i >= 0; ok = FALSE when the pattern has no such conversion
RECURSIVE Pad(_, _, _)
Pad(t, w, c) == IF Len(t) >= w THEN t ELSE Pad(c \o t, w, c)

Sprintf(fmt, i) ==
    With(Find("%", fmt), LAMBDA p :
    With(Drop(fmt, p + 1), LAMBDA after :
    With(after # "" /\ Ch(after, 1) = "0", LAMBDA zero :
    With(IF zero THEN Drop(after, 1) ELSE after, LAMBDA a2 :
    With(IntPrefixLen(a2), LAMBDA wl :
    With(Drop(a2, wl), LAMBDA a3 :
        IF p < 0 \/ a3 = "" \/ Ch(a3, 1) \notin {"d", "i"} THEN [ok |-> FALSE, v |-> ""]
        ELSE [ok |-> TRUE,
              v |-> Take(fmt, p)
                    \o Pad(DecNat(i), IF wl = 0 THEN 0 ELSE NatOf(Take(a2, wl)),
                           IF zero THEN "0" ELSE " ")
                    \o Drop(a3, 1)]))))))

\* (a..=b).step_by(n)
RECURSIVE RangeStepBy(_, _, _)
RangeStepBy(a, b, n) == IF a > b THEN <<>> ELSE <<a>> \o RangeStepBy(a + n, b, n)

\* (a..=b).rev().step_by(n)
RECURSIVE RevRangeStepBy(_, _, _)
RevRangeStepBy(a, b, n) == IF a > b THEN <<>> ELSE <<b>> \o RevRangeStepBy(a, b - n, n)

\* (a..b).step_by(n), the upper bound left out
DataFile_paths_exclusive(v) ==
    IF v.kind = "FileFormat" /\ v.step > 0
    THEN LET idx == RangeStepBy(Abs(v.min), Abs(v.max) - 1, v.step)
         IN  [ok |-> TRUE, v |-> [k \in 1..Len(idx) |-> Sprintf(v.fmt_string, idx[k]).v]]
    ELSE [ok |-> TRUE, v |-> <<>>]

\* DataFile::paths; ok = FALSE when sprintf!(..).unwrap() panics
DataFile_paths(v) ==
    CASE v.kind = "SingleFile" -> [ok |-> TRUE, v |-> <<v.filename>>]
      [] v.kind = "List" -> [ok |-> TRUE, v |-> v.file_paths]
      [] v.kind = "FileFormat" ->
            LET idx == IF v.step > 0 THEN RangeStepBy(Abs(v.min), Abs(v.max), v.step)
                       ELSE IF v.step < 0
                       THEN RevRangeStepBy(Abs(v.max), Abs(v.min), Abs(v.step))
                       ELSE <<>>
            IN  IF idx # <<>> /\ ~Sprintf(v.fmt_string, 0).ok THEN [ok |-> FALSE, v |-> <<>>]
                ELSE [ok |-> TRUE,
                      v |-> [k \in 1..Len(idx) |-> Sprintf(v.fmt_string, idx[k]).v]]

(***************************************************************************)
(* The header record (lib.rs, struct NRRD) and its rendering.              *)
(***************************************************************************)
OptionalDefs ==
    <<"Content", "Min", "Max", "OldMin", "OldMax", "LineSkip", "ByteSkip",
      "SampleUnits", "Spacings", "Thicknesses", "AxisMins", "AxisMaxs",
      "Centerings", "Labels", "Units", "Kinds", "Space", "SpaceDimension",
      "SpaceUnits", "SpaceOrigin", "SpaceDirections">>

\* the field of the record that holds the value of a field type
FieldOf(T) ==
    CASE T = "Magic" -> "magic" [] T = "Dimension" -> "dimension"
      [] T = "DType" -> "dtype" [] T = "BlockSize" -> "block_size"
      [] T = "Encoding" -> "encoding" [] T = "Endian" -> "endian"
      [] T = "Sizes" -> "sizes" [] T = "Content" -> "content"
      [] T = "Min" -> "min" [] T = "Max" -> "max"
      [] T = "OldMin" -> "old_min" [] T = "OldMax" -> "old_max"
      [] T = "LineSkip" -> "line_skip" [] T = "ByteSkip" -> "byte_skip"
      [] T = "SampleUnits" -> "sample_units" [] T = "Spacings" -> "spacings"
      [] T = "Thicknesses" -> "thicknesses" [] T = "AxisMins" -> "axis_mins"
      [] T = "AxisMaxs" -> "axis_maxs" [] T = "Centerings" -> "centerings"
      [] T = "Labels" -> "labels" [] T = "Units" -> "units"
      [] T = "Kinds" -> "kinds" [] T = "Space" -> "space"
      [] T = "SpaceDimension" -> "space_dimension"
      [] T = "SpaceUnits" -> "space_units"
      [] T = "SpaceOrigin" -> "space_origin"
      [] T = "SpaceDirections" -> "space_directions"
      [] T = "DataFile" -> "data_file"

NoKeyVals == [k \in {} |-> ""]

\* the record with the given mandatory fields and every optional field absent
\* (the struct literal of from_lines_minimal and new_from_dims)
MinimalHeader(magic, dimension, dtype, block_size, encoding, endian, sizes) ==
    [magic |-> magic, dimension |-> dimension, dtype |-> dtype,
     block_size |-> block_size, encoding |-> encoding, endian |-> endian,
     content |-> None, min |-> None, max |-> None, old_min |-> None,
     old_max |-> None, data_file |-> None, line_skip |-> None,
     byte_skip |-> None, sample_units |-> None, sizes |-> sizes,
     spacings |-> None, thicknesses |-> None, axis_mins |-> None,
     axis_maxs |-> None, centerings |-> None, labels |-> None, units |-> None,
     kinds |-> None, space |-> None, space_dimension |-> None,
     space_units |-> None, space_origin |-> None, space_directions |-> None,
     key_vals |-> NoKeyVals, comments |-> <<>>]

NoHeader == MinimalHeader(0, 0, "uint8", None, "raw", "Little", <<>>)

\* T::from_str
FromStr(T, s) ==
    CASE T = "Magic" -> Magic_from_str(s)
      [] T = "Dimension" -> Dimension_from_str(s)
      [] T = "DType" -> DType_from_str(s)
      [] T = "BlockSize" -> BlockSize_from_str(s)
      [] T = "Encoding" -> Encoding_from_str(s)
      [] T = "Endian" -> Endian_from_str(s)
      [] T = "Sizes" -> Sizes_from_str(s)
      [] T = "Content" -> Content_from_str(s)
      [] T = "Min" -> Min_from_str(s)
      [] T = "Max" -> Max_from_str(s)
      [] T = "OldMin" -> OldMin_from_str(s)
      [] T = "OldMax" -> OldMax_from_str(s)
      [] T = "LineSkip" -> LineSkip_from_str(s)
      [] T = "ByteSkip" -> ByteSkip_from_str(s)
      [] T = "SampleUnits" -> SampleUnits_from_str(s)
      [] T = "Spacings" -> Spacings_from_str(s)
      [] T = "Thicknesses" -> Thicknesses_from_str(s)
      [] T = "AxisMins" -> AxisMins_from_str(s)
      [] T = "AxisMaxs" -> AxisMaxs_from_str(s)
      [] T = "Centerings" -> Centerings_from_str(s)
      [] T = "Labels" -> Labels_from_str(s)
      [] T = "Units" -> Units_from_str(s)
      [] T = "Kinds" -> Kinds_from_str(s)
      [] T = "Space" -> Space_from_str(s)
      [] T = "SpaceDimension" -> SpaceDimension_from_str(s)
      [] T = "SpaceUnits" -> SpaceUnits_from_str(s)
      [] T = "SpaceOrigin" -> SpaceOrigin_from_str(s)
      [] T = "SpaceDirections" -> SpaceDirections_from_str(s)
      [] T = "DataFile" -> DataFile_from_str(s)

\* Display of a field value
Fmt(T, v) ==
    CASE T = "Magic" -> Magic_fmt(v)
      [] T = "Dimension" -> Dimension_fmt(v)
      [] T = "DType" -> DType_fmt(v)
      [] T = "BlockSize" -> BlockSize_fmt(v)
      [] T = "Encoding" -> Encoding_fmt(v)
      [] T = "Endian" -> Endian_fmt(v)
      [] T = "Sizes" -> Sizes_fmt(v)
      [] T = "Content" -> Content_fmt(v)
      [] T = "Min" -> Min_fmt(v)
      [] T = "Max" -> Max_fmt(v)
      [] T = "OldMin" -> OldMin_fmt(v)
      [] T = "OldMax" -> OldMax_fmt(v)
      [] T = "LineSkip" -> LineSkip_fmt(v)
      [] T = "ByteSkip" -> ByteSkip_fmt(v)
      [] T = "SampleUnits" -> SampleUnits_fmt(v)
      [] T = "Spacings" -> Spacings_fmt(v)
      [] T = "Thicknesses" -> Thicknesses_fmt(v)
      [] T = "AxisMins" -> AxisMins_fmt(v)
      [] T = "AxisMaxs" -> AxisMaxs_fmt(v)
      [] T = "Centerings" -> Centerings_fmt(v)
      [] T = "Labels" -> Labels_fmt(v)
      [] T = "Units" -> Units_fmt(v)
      [] T = "Kinds" -> Kinds_fmt(v)
      [] T = "Space" -> Space_fmt(v)
      [] T = "SpaceDimension" -> SpaceDimension_fmt(v)
      [] T = "SpaceUnits" -> SpaceUnits_fmt(v)
      [] T = "SpaceOrigin" -> SpaceOrigin_fmt(v)
      [] T = "SpaceDirections" -> SpaceDirections_fmt(v)
      [] T = "DataFile" -> DataFile_fmt(v)

\* byte order of the printable ASCII characters (the backquote is left out)
Ascii ==
    " !\"#$%&'()*+,-./0123456789:;<=>?@ABCDEFGHIJKLMNOPQRSTUVWXYZ[\\]^_abcdefghijklmnopqrstuvwxyz{|}~"

RECURSIVE StrLess(_, _)
\* a < b for String (lexicographic by byte)
StrLess(a, b) ==
    IF b = "" THEN FALSE
    ELSE IF a = "" THEN TRUE
    ELSE IF Ch(a, 1) = Ch(b, 1) THEN StrLess(Drop(a, 1), Drop(b, 1))
    ELSE Find(Ch(a, 1), Ascii) < Find(Ch(b, 1), Ascii)

RECURSIVE SortKeys(_)
\* the keys in ascending order (sort_by_key on the key)
SortKeys(K) ==
    IF K = {} THEN <<>>
    ELSE With(CHOOSE k \in K : \A o \in K \ {k} : StrLess(k, o), LAMBDA m :
             <<m>> \o SortKeys(K \ {m}))

\* the writeln! of an optional field: nothing when the field is absent
OptLine(T, o) == IF o = None THEN <<>> ELSE <<Fmt(T, o[1])>>

\* The writes of Display for NRRD, in order: a field type for a writeln! of
\* its field, "comments" for the loop over the comments and "key_vals" for
\* the loop over the sorted key/value pairs
DisplayOrder ==
    <<"Magic", "comments", "Dimension", "DType", "BlockSize", "Encoding", "Endian",
      "Content", "Min", "Max", "OldMin", "OldMax", "LineSkip", "ByteSkip",
      "SampleUnits", "Sizes", "Spacings", "Thicknesses", "AxisMins", "AxisMaxs",
      "Centerings", "Labels", "Units", "Kinds", "Space", "SpaceDimension",
      "SpaceUnits", "SpaceOrigin", "SpaceDirections", "key_vals", "DataFile">>

\* the field types whose field is no Option
MandatoryDefs == {"Magic", "Dimension", "DType", "Encoding", "Endian", "Sizes"}

\* the lines of one write of Display for NRRD
DisplayLines(r, T) ==
    CASE T = "comments" -> r.comments
      [] T = "key_vals" ->
            With(SortKeys(DOMAIN r.key_vals), LAMBDA keys :
                [i \in 1..Len(keys) |-> keys[i] \o Value_fmt(r.key_vals[keys[i]])])
      [] OTHER ->
            OptLine(T, IF T \in MandatoryDefs THEN Some(r[FieldOf(T)])
                       ELSE r[FieldOf(T)])

HeaderLines_sizes_early(r) ==
    Flatten([i \in 1..Len(DisplayOrder) |->
                DisplayLines(r, DisplayOrder[IF i = 4 THEN 16 ELSE IF i = 16 THEN 4 ELSE i])])

\* the lines Display for NRRD writes, in order
HeaderLines(r) ==
    Flatten([i \in 1..Len(DisplayOrder) |-> DisplayLines(r, DisplayOrder[i])])

RECURSIVE Writeln(_)
Writeln(ls) ==
    IF ls = <<>> THEN ""
    ELSE IF Len(ls) = 1 THEN ls[1] \o "\n"
    ELSE Writeln(SubSeq(ls, 1, Len(ls) \div 2))
         \o Writeln(SubSeq(ls, Len(ls) \div 2 + 1, Len(ls)))

\* Display for NRRD (to_string): every line is written with writeln!
HeaderText(r) == Writeln(HeaderLines(r))

(***************************************************************************)
(* The header assembler (lib.rs).  An assembler state is [ok, h, lines]:   *)
(* ok = FALSE after a panic, h the record built so far, lines the          *)
(* collection with the consumed lines removed.                             *)
(***************************************************************************)
RemoveAt(ls, i) == SubSeq(ls, 1, i - 1) \o SubSeq(ls, i + 1, Len(ls))

\* a search that looks at the front line only
FirstMatch_front(T, ls) == IF ls # <<>> /\ Matches(T, ls[1]) THEN 1 ELSE 0

\* index of the first line T matches, 0 when none does
FirstMatch(T, ls) ==
    With({i \in 1..Len(ls) : Matches(T, ls[i])}, LAMBDA c :
        IF c = {} THEN 0 ELSE CHOOSE i \in c : \A j \in c : i <= j)

\* read_header_def::<T>: the first line T matches, anywhere in the
\* collection, is parsed (a panic when that fails) and removed
read_header_def(T, ls) ==
    With(FirstMatch(T, ls), LAMBDA i :
        IF i = 0 THEN [ok |-> TRUE, opt |-> None, lines |-> ls]
        ELSE With(FromStr(T, ls[i]), LAMBDA r :
                 IF ~r.ok THEN [ok |-> FALSE, opt |-> None, lines |-> ls]
                 ELSE [ok |-> TRUE, opt |-> Some(r.v), lines |-> RemoveAt(ls, i)]))

\* The reads of from_lines_minimal, in order, each with the way its result
\* is taken.  "expect": let x: T = read_header_def(lines).expect(..);
\* "block": Some(read_header_def(lines).expect(..)) if dtype == DType::block,
\* None otherwise
MandatoryReads ==
    << <<"Magic", "expect">>, <<"Dimension", "expect">>, <<"DType", "expect">>,
       <<"BlockSize", "block">>, <<"Encoding", "expect">>, <<"Endian", "expect">>,
       <<"Sizes", "expect">> >>

\* The reads of from_lines_full behind from_lines_minimal.  "option":
\* h.x = read_header_def(lines)
OptionalReads == [i \in 1..Len(OptionalDefs) |-> <<OptionalDefs[i], "option">>]

\* a read that leaves a mandatory field as it is when no line matches
Read_lenient(st, T, how) ==
    IF ~st.ok \/ (how = "block" /\ st.h.dtype # "Block") THEN st
    ELSE With(read_header_def(T, st.lines), LAMBDA r :
             IF ~r.ok THEN [st EXCEPT !.ok = FALSE]
             ELSE IF how # "option" /\ r.opt = None THEN st
             ELSE [ok |-> TRUE,
                   h |-> [st.h EXCEPT ![FieldOf(T)] =
                             IF how = "expect" THEN r.opt[1] ELSE r.opt],
                   lines |-> r.lines])

\* one read of a field type T
Read(st, T, how) ==
    IF ~st.ok \/ (how = "block" /\ st.h.dtype # "Block") THEN st
    ELSE With(read_header_def(T, st.lines), LAMBDA r :
             IF ~r.ok \/ (how # "option" /\ r.opt = None) THEN [st EXCEPT !.ok = FALSE]
             ELSE [ok |-> TRUE,
                   h |-> [st.h EXCEPT ![FieldOf(T)] =
                             IF how = "expect" THEN r.opt[1] ELSE r.opt],
                   lines |-> r.lines])

RECURSIVE Reads(_, _)
\* the reads rs, one after the other; none is made after a panic
Reads(st, rs) ==
    IF ~st.ok \/ rs = <<>> THEN st
    ELSE IF Len(rs) = 1 THEN Read(st, rs[1][1], rs[1][2])
    ELSE Reads(Reads(st, SubSeq(rs, 1, Len(rs) \div 2)),
               SubSeq(rs, Len(rs) \div 2 + 1, Len(rs)))

\* NRRD::from_lines_minimal
from_lines_minimal(ls) ==
    Reads([ok |-> ls # <<>>, h |-> NoHeader, lines |-> ls], MandatoryReads)

IsKeyValueLine(l) == Value_matches_key_value(l)

NotKeyValueLine(l) == ~Value_matches_key_value(l)

\* read_key_values: every line that holds ":=" is removed and inserted into
\* the map, a later line replacing an earlier one with the same key
read_key_values(st) ==
    With(SelectSeq(st.lines, IsKeyValueLine), LAMBDA kv :
    With([i \in 1..Len(kv) |-> Value_key(kv[i])], LAMBDA keys :
        IF ~st.ok THEN st
        ELSE [ok |-> TRUE,
              h |-> [st.h EXCEPT !.key_vals =
                        [k \in {keys[i] : i \in 1..Len(kv)} |->
                            Value_from_str(
                                kv[CHOOSE i \in 1..Len(kv) :
                                      /\ keys[i] = k
                                      /\ \A j \in (i + 1)..Len(kv) : keys[j] # k]).v]],
              lines |-> SelectSeq(st.lines, NotKeyValueLine)]))

IsCommentLine(l) == Matches("Comment", l)

NotCommentLine(l) == ~Matches("Comment", l)

HasCommentText(l) == Comment_from_str(l).ok

\* read_comments: every line that starts with '#' is removed; those whose
\* text is not empty are stored as rendered comments
read_comments(st) ==
    With(SelectSeq(SelectSeq(st.lines, IsCommentLine), HasCommentText), LAMBDA cl :
        IF ~st.ok THEN st
        ELSE [ok |-> TRUE,
              h |-> [st.h EXCEPT !.comments =
                        [i \in 1..Len(cl) |-> Comment_fmt(Comment_from_str(cl[i]).v)]],
              lines |-> SelectSeq(st.lines, NotCommentLine)])

\* a read of the directive that drops every line behind it, whatever its form
read_data_file_drains(st) ==
    With(FirstMatch("DataFile", st.lines), LAMBDA i :
        IF ~st.ok \/ i = 0 THEN st
        ELSE With(DataFile_from_str(st.lines[i]), LAMBDA r :
                 IF ~r.ok THEN [st EXCEPT !.ok = FALSE]
                 ELSE [ok |-> TRUE,
                       h |-> [st.h EXCEPT !.data_file =
                                 Some(IF r.v.kind = "List"
                                      THEN [r.v EXCEPT !.file_paths =
                                               SubSeq(st.lines, i + 1, Len(st.lines))]
                                      ELSE r.v)],
                       lines |-> SubSeq(st.lines, 1, i - 1)]))

\* read_data_file: the first data-file line is parsed; a LIST takes every
\* line after it as a path and removes them with the directive line
read_data_file(st) ==
    With(FirstMatch("DataFile", st.lines), LAMBDA i :
        IF ~st.ok \/ i = 0 THEN st
        ELSE With(DataFile_from_str(st.lines[i]), LAMBDA r :
                 IF ~r.ok THEN [st EXCEPT !.ok = FALSE]
                 ELSE IF r.v.kind = "List"
                 THEN [ok |-> TRUE,
                       h |-> [st.h EXCEPT !.data_file =
                                 Some([r.v EXCEPT !.file_paths =
                                          SubSeq(st.lines, i + 1, Len(st.lines))])],
                       lines |-> SubSeq(st.lines, 1, i - 1)]
                 ELSE [ok |-> TRUE, h |-> [st.h EXCEPT !.data_file = Some(r.v)],
                       lines |-> RemoveAt(st.lines, i)]))

\* NRRD::from_lines_full
from_lines_full(ls) ==
    read_data_file(
        read_comments(
            read_key_values(
                Reads(from_lines_minimal(ls), OptionalReads))))

(***************************************************************************)
(* Files (io.rs).  A byte is a number in 0..255, a file a sequence of      *)
(* bytes with a cursor counted from 0.  The bytes below 128 that the       *)
(* checked files hold are those of TextBytes.                              *)
(***************************************************************************)
TextBytes == {9, 10, 13} \cup (32..95) \cup (97..126)

CharOfByte(b) ==
    CASE b = 9 -> "\t"
      [] b = 10 -> "\n"
      [] b = 13 -> "\r"
      [] b \in 32..95 -> Ch(Ascii, b - 31)
      [] b \in 97..126 -> Ch(Ascii, b - 32)
      [] OTHER -> "\f"

ByteTable == [c \in {CharOfByte(b) : b \in TextBytes} |->
                CHOOSE b \in TextBytes : CharOfByte(b) = c]

\* str::as_bytes
as_bytes(s) == [i \in 1..Len(s) |-> ByteTable[Ch(s, i)]]

RECURSIVE CharsOf(_)
CharsOf(bs) ==
    IF bs = <<>> THEN ""
    ELSE IF Len(bs) = 1 THEN CharOfByte(bs[1])
    ELSE CharsOf(SubSeq(bs, 1, Len(bs) \div 2))
         \o CharsOf(SubSeq(bs, Len(bs) \div 2 + 1, Len(bs)))

\* String::from_utf8: a byte of 128 or more that is part of no multi-byte
\* sequence is no text
from_utf8(bs) ==
    IF \E i \in 1..Len(bs) : bs[i] >= 128 THEN [ok |-> FALSE, v |-> ""]
    ELSE [ok |-> TRUE, v |-> CharsOf(bs)]

BufZeros(n) == [i \in 1..n |-> 0]

\* BufRead::read_until(b'\n'): the index of the last byte of the line that
\* starts behind pos (the newline, or the last byte of the file)
LineEnd(bs, pos) ==
    LET nl == {i \in (pos + 1)..Len(bs) : bs[i] = 10}
    IN  IF nl = {} THEN Len(bs) ELSE CHOOSE i \in nl : \A j \in nl : i <= j

\* a read for which only "\n" is a blank line
read_until_blank_lf(bs, pos, acc) ==
    LET starts == {i \in (pos + 1)..Len(bs) : i = pos + 1 \/ bs[i - 1] = 10}
        blanks == {i \in starts : bs[i] = 10}
        b == CHOOSE i \in blanks : \A j \in blanks : i <= j
    IN  IF blanks = {}
        THEN [acc |-> acc \o SubSeq(bs, pos + 1, Len(bs)),
              pos |-> IF pos >= Len(bs) THEN pos ELSE Len(bs), blank |-> FALSE]
        ELSE [acc |-> acc \o SubSeq(bs, pos + 1, b - 1), pos |-> b, blank |-> TRUE]

\* io::read_until_blank: the bytes of the lines before the first blank line
\* ("\n" or "\r\n" behind a line end or at the start) and the cursor, which
\* stands behind the blank line or at the end
read_until_blank(bs, pos, acc) ==
    LET starts == {i \in (pos + 1)..Len(bs) : i = pos + 1 \/ bs[i - 1] = 10}
        blanks == {i \in starts :
                      bs[i] = 10 \/ (i < Len(bs) /\ bs[i] = 13 /\ bs[i + 1] = 10)}
        b == CHOOSE i \in blanks : \A j \in blanks : i <= j
    IN  IF blanks = {}
        THEN [acc |-> acc \o SubSeq(bs, pos + 1, Len(bs)),
              pos |-> IF pos >= Len(bs) THEN pos ELSE Len(bs), blank |-> FALSE]
        ELSE [acc |-> acc \o SubSeq(bs, pos + 1, b - 1),
              pos |-> IF bs[b] = 10 THEN b ELSE b + 1, blank |-> TRUE]

RECURSIVE skip_lines(_, _, _)
\* io::skip_lines: the cursor behind the n-th line, or at the end
skip_lines(bs, pos, n) ==
    IF n = 0 \/ pos >= Len(bs) THEN pos ELSE skip_lines(bs, LineEnd(bs, pos), n - 1)

Min2(a, b) == IF a < b THEN a ELSE b

\* io::read_with_skip on a reader that yields stream: ok = FALSE when the
\* stream ends while skipping; a short stream leaves the rest of the buffer
read_with_skip(stream, buf, bytes_to_skip) ==
    IF bytes_to_skip > Len(stream) THEN [ok |-> FALSE, v |-> buf]
    ELSE LET n == Min2(Len(buf), Len(stream) - bytes_to_skip)
         IN  [ok |-> TRUE,
              v |-> SubSeq(stream, bytes_to_skip + 1, bytes_to_skip + n)
                    \o SubSeq(buf, n + 1, Len(buf))]

\* io::read_raw with seek_to_raw = None
read_raw(bs, pos, buf, bytes_to_skip) ==
    read_with_skip(SubSeq(bs, pos + 1, Len(bs)), buf, bytes_to_skip)

\* io::read_tail: the last min(want, file_len) bytes of the file
read_tail(bs, buf) ==
    LET n == Min2(Len(buf), Len(bs))
    IN  SubSeq(bs, Len(bs) - n + 1, Len(bs)) \o SubSeq(buf, n + 1, Len(buf))

\* io::write_raw
write_raw(payload) == payload

\* GzEncoder: a gzip stream is the payload between the gzip magic and a
\* trailer with its length
GzMagic == <<31, 139, 8>>

write_gzip(payload) == GzMagic \o payload \o <<Len(payload) % 256>>

\* BzEncoder and BzDecoder: the payload between the stream magic "BZh" and
\* the end-of-stream mark
BzMagic == <<66, 90, 104>>

BzEnd == <<144>>

write_bzip2(payload) == BzMagic \o payload \o BzEnd

BzDecode(bs) ==
    IF /\ Len(bs) >= Len(BzMagic) + Len(BzEnd)
       /\ SubSeq(bs, 1, Len(BzMagic)) = BzMagic
       /\ SubSeq(bs, Len(bs) - Len(BzEnd) + 1, Len(bs)) = BzEnd
    THEN [ok |-> TRUE, v |-> SubSeq(bs, Len(BzMagic) + 1, Len(bs) - Len(BzEnd))]
    ELSE [ok |-> FALSE, v |-> <<>>]

\* Read for flate2::write::GzDecoder (the decoder io.rs imports): the bytes
\* of the underlying reader, as they are
GzDecoder_read(bs) == bs

\* io::read_gzip with seek_to_raw_compressed = None
read_gzip(bs, pos, buf, bytes_to_skip) ==
    read_with_skip(GzDecoder_read(SubSeq(bs, pos + 1, Len(bs))), buf, bytes_to_skip)

\* io::read_bzip2 with seek_to_raw_compressed = None; a stream that is no
\* bzip2 stream fails the first read
read_bzip2(bs, pos, buf, bytes_to_skip) ==
    LET d == BzDecode(SubSeq(bs, pos + 1, Len(bs)))
    IN  IF ~d.ok /\ (bytes_to_skip > 0 \/ Len(buf) > 0) THEN [ok |-> FALSE, v |-> buf]
        ELSE read_with_skip(d.v, buf, bytes_to_skip)


(***************************************************************************)
(* Paths, element buffers and the file system.  A file system is a         *)
(* function from the paths of the files that exist to their bytes.         *)
(***************************************************************************)
\* the index of the last c in s, counted from 1; 0 when there is none
LastIndex(c, s) ==
    LET at == {i \in 1..Len(s) : Ch(s, i) = c}
    IN  IF at = {} THEN 0 ELSE CHOOSE i \in at : \A j \in at : j <= i

\* Path::file_name
file_name(p) == Drop(p, LastIndex("/", p))

\* Path::parent
parent(p) == Take(p, LastIndex("/", p) - (IF LastIndex("/", p) > 1 THEN 1 ELSE 0))

\* Path::join
join(dir, p) ==
    IF StartsWith(p, "/") \/ dir = "" THEN p
    ELSE IF EndsWith(dir, "/") THEN dir \o p ELSE dir \o "/" \o p

\* Path::is_relative
is_relative(p) == ~StartsWith(p, "/")

\* a path with ext put behind it, whatever extension it has
with_extension_appended(p, ext) == p \o (IF ext = "" THEN "" ELSE "." \o ext)

\* Path::with_extension: the extension of the file name (what follows its
\* last dot, unless the name starts with that dot) is replaced
with_extension(p, ext) ==
    LET name == file_name(p)
        dot == LastIndex(".", name)
        stem == IF dot > 1 THEN Take(name, dot - 1) ELSE name
    IN  Take(p, Len(p) - Len(name)) \o stem \o (IF ext = "" THEN "" ELSE "." \o ext)

NoFiles == [n \in {} |-> <<>>]

\* File::create and write_all
Create(f, p, bs) == [n \in DOMAIN f \cup {p} |-> IF n = p THEN bs ELSE f[n]]

\* Path::exists
Exists(f, p) == p \in DOMAIN f

\* T::dtype for the element types u8 and u16
NRRDType_dtype(T) == CASE T = "u8" -> "uint8" [] T = "u16" -> "uint16"

RECURSIVE Pow256(_)
Pow256(n) == IF n = 0 THEN 1 ELSE 256 * Pow256(n - 1)

\* the bytes of one element (a bit pattern of size bytes) in a byte order
ElemBytes(e, size, endian) ==
    [i \in 1..size |-> (e \div Pow256(IF endian = "Little" THEN i - 1 ELSE size - i)) % 256]

\* bytemuck::cast_slice: the elements in the byte order of the platform
cast_slice(data, size, native) ==
    Flatten([i \in 1..Len(data) |-> ElemBytes(data[i], size, native)])

RECURSIVE ElemOf(_, _)
\* ByteOrder::read_uN: the element of its bytes in a byte order
ElemOf(bs, endian) ==
    IF bs = <<>> THEN 0
    ELSE IF endian = "Little" THEN bs[1] + 256 * ElemOf(Tail(bs), endian)
    ELSE bs[Len(bs)] + 256 * ElemOf(SubSeq(bs, 1, Len(bs) - 1), endian)

\* NRRD::element_size and NRRD::expected_bytes; ok = FALSE when the type is
\* block and there is no block size
element_size(r) ==
    IF r.dtype = "Block"
    THEN IF r.block_size = None THEN Err ELSE [ok |-> TRUE, v |-> r.block_size[1]]
    ELSE [ok |-> TRUE, v |-> DType_size(r.dtype)]

expected_bytes(r) ==
    With(element_size(r), LAMBDA e :
        IF ~e.ok THEN Err ELSE [ok |-> TRUE, v |-> Sizes_n_elements(r.sizes) * e.v])

\* the conversion of read_nrrd_to: n elements of the header's type, read in
\* the header's byte order; ok = FALSE for the type block and when the bytes
\* are not n elements
read_elements(bs, r) ==
    LET n == Sizes_n_elements(r.sizes)
        size == DType_size(r.dtype)
    IN  IF r.dtype = "Block" \/ (size > 1 /\ Len(bs) # n * size) THEN SeqErr
        ELSE [ok |-> TRUE,
              v |-> [i \in 1..(Len(bs) \div size) |->
                       ElemOf(SubSeq(bs, (i - 1) * size + 1, i * size), r.endian)]]

\* Encoding::write_payload: the payload as io::write_raw, io::write_gzip or
\* io::write_bzip2 write it
Encoding_write_payload(e, payload) ==
    CASE e = "raw" -> write_raw(payload)
      [] e = "rawgz" -> write_gzip(payload)
      [] e = "rawbz2" -> write_bzip2(payload)

\* Encoding::file_ext
Encoding_file_ext(e) ==
    CASE e = "raw" -> "raw"
      [] e = "rawgz" -> "raw.gz"
      [] e = "rawbz2" -> "raw.bz2"

\* a write that creates its first file before it compares the lengths
write_nrrd_creates_first(f, filepath, ref_header, data, T, attached, encoding, native) ==
    With([ref_header EXCEPT !.dtype = NRRDType_dtype(T), !.endian = native], LAMBDA h1 :
    With(cast_slice(data, DType_size(h1.dtype), native), LAMBDA bytes :
    With(Encoding_file_ext(encoding), LAMBDA ext :
    With([h1 EXCEPT !.encoding = encoding, !.byte_skip = None, !.line_skip = None,
                    !.data_file =
                        IF attached THEN None
                        ELSE Some(SingleFile(with_extension(file_name(filepath), ext)))],
         LAMBDA hw :
        IF Len(bytes) # expected_bytes(h1).v
        THEN [ok |-> FALSE, h |-> h1,
              fs |-> Create(f, with_extension(filepath, IF attached THEN "nrrd" ELSE ext),
                            <<>>)]
        ELSE With(as_bytes(HeaderText(hw)), LAMBDA header :
             With(Encoding_write_payload(encoding, bytes), LAMBDA payload :
                 [ok |-> TRUE, h |-> hw,
                  fs |-> IF attached
                         THEN Create(f, with_extension(filepath, "nrrd"),
                                     header \o payload)
                         ELSE Create(Create(f, with_extension(filepath, ext), payload),
                                     with_extension(filepath, "nhdr"), header)]))))))

\* a write that keeps the line skip and the byte skip of the reference header
write_nrrd_keeps_skips(f, filepath, ref_header, data, T, attached, encoding, native) ==
    With([ref_header EXCEPT !.dtype = NRRDType_dtype(T), !.endian = native], LAMBDA h1 :
    With(cast_slice(data, DType_size(h1.dtype), native), LAMBDA bytes :
    With(Encoding_file_ext(encoding), LAMBDA ext :
    With([h1 EXCEPT !.encoding = encoding,
                    !.data_file =
                        IF attached THEN None
                        ELSE Some(SingleFile(with_extension(file_name(filepath), ext)))],
         LAMBDA hw :
        IF Len(bytes) # expected_bytes(h1).v THEN [ok |-> FALSE, fs |-> f, h |-> h1]
        ELSE With(as_bytes(HeaderText(hw)), LAMBDA header :
             With(Encoding_write_payload(encoding, bytes), LAMBDA payload :
                 [ok |-> TRUE, h |-> hw,
                  fs |-> IF attached
                         THEN Create(f, with_extension(filepath, "nrrd"),
                                     header \o payload)
                         ELSE Create(Create(f, with_extension(filepath, ext), payload),
                                     with_extension(filepath, "nhdr"), header)]))))))

\* write_nrrd: the file system after the call, ok = FALSE when the length
\* assertion fails; native is Endian::native() of the build
write_nrrd(f, filepath, ref_header, data, T, attached, encoding, native) ==
    With([ref_header EXCEPT !.dtype = NRRDType_dtype(T), !.endian = native], LAMBDA h1 :
    With(cast_slice(data, DType_size(h1.dtype), native), LAMBDA bytes :
    With(Encoding_file_ext(encoding), LAMBDA ext :
    With([h1 EXCEPT !.encoding = encoding, !.byte_skip = None, !.line_skip = None,
                    !.data_file =
                        IF attached THEN None
                        ELSE Some(SingleFile(with_extension(file_name(filepath), ext)))],
         LAMBDA hw :
        IF Len(bytes) # expected_bytes(h1).v THEN [ok |-> FALSE, fs |-> f, h |-> h1]
        ELSE With(as_bytes(HeaderText(hw)), LAMBDA header :
             With(Encoding_write_payload(encoding, bytes), LAMBDA payload :
                 [ok |-> TRUE, h |-> hw,
                  fs |-> IF attached
                         THEN Create(f, with_extension(filepath, "nrrd"),
                                     header \o payload)
                         ELSE Create(Create(f, with_extension(filepath, ext), payload),
                                     with_extension(filepath, "nhdr"), header)]))))))

\* the first byte of the k-th chunk of chunks_exact_mut(bytes_per_file),
\* counted from 0, when every chunk starts at the front of the buffer
ChunkStart_front(k, bytes_per_file) == 0

\* the first byte of the k-th chunk of chunks_exact_mut(bytes_per_file),
\* counted from 0
ChunkStart(k, bytes_per_file) == (k - 1) * bytes_per_file

\* an existence check that finds every path
AllExist_unchecked(f, ps) == TRUE

\* resolved_paths.iter().for_each(|file| if !file.exists() { panic!(..) })
AllExist(f, ps) == \A i \in 1..Len(ps) : Exists(f, ps[i])

\* the match on h.encoding of read_payload, for a file with its cursor at
\* pos: ok = FALSE when the read panics, known = FALSE for an encoding
\* that is not supported
read_encoded(bs, pos, enc, buf, bytes_to_skip) ==
    LET r == CASE enc = "raw" -> read_raw(bs, pos, buf, bytes_to_skip)
               [] enc = "rawgz" -> read_gzip(bs, pos, buf, bytes_to_skip)
               [] enc = "rawbz2" -> read_bzip2(bs, pos, buf, bytes_to_skip)
               [] OTHER -> [ok |-> FALSE, v |-> buf]
    IN  [ok |-> r.ok, v |-> r.v, known |-> enc \in {"raw", "rawgz", "rawbz2"}]

\* the paths of the directive, a relative one joined to the directory of
\* the header file
resolved_paths(ps, filepath) ==
    [i \in 1..Len(ps) |-> IF is_relative(ps[i]) THEN join(parent(filepath), ps[i]) ELSE ps[i]]


(***************************************************************************)
(* Bounds of the checked instances.                                        *)
(***************************************************************************)
MaxDim == 2          \* largest dimension of a generated header

MaxSize == 3         \* largest axis size of a generated header

MaxOptional == 1     \* optional fields set together in a generated header

MaxVersion == 5      \* largest magic version of a generated header

\* sequences over S of length 1..n
RECURSIVE SeqsUpTo(_, _)
SeqsUpTo(S, n) ==
    IF n = 0 THEN {}
    ELSE LET prev == SeqsUpTo(S, n - 1)
         IN  {<<x>> : x \in S} \cup prev
             \cup {Append(q, x) : q \in {p \in prev : Len(p) = n - 1}, x \in S}

DTypes ==
    {"int8", "uint8", "int16", "uint16", "int32", "uint32", "int64", "uint64",
     "f32", "f64", "Block"}

Encodings == {"raw", "txt", "hex", "rawgz", "rawbz2"}

Endians == {"Big", "Little"}

\* the records that hold the mandatory fields only; a block type comes with
\* its block size
MinimalHeaders ==
    {MinimalHeader(v, Len(sz), t, IF t = "Block" THEN Some(Len(sz) + 1) ELSE None, e, en, sz) :
        v \in (MaxVersion - 1)..MaxVersion, t \in DTypes, e \in Encodings,
        en \in Endians, sz \in SeqsUpTo(2..MaxSize, MaxDim)}

\* values of the optional fields, for a record of dimension 2
OptionChoices ==
    << <<"content", Some("a b  c")>>,
       <<"min", Some(Fin(15))>>,
       <<"max", Some(Fin(200))>>,
       <<"old_min", Some(Fin(-5))>>,
       <<"old_max", Some(Fin(30))>>,
       <<"line_skip", Some(2)>>,
       <<"byte_skip", Some(Skip(4))>>,
       <<"byte_skip", Some(Rev)>>,
       <<"sample_units", Some("mm")>>,
       <<"spacings", Some(<<Fin(10), Fin(25)>>)>>,
       <<"thicknesses", Some(<<Fin(10), NaN>>)>>,
       <<"axis_mins", Some(<<Fin(0), Fin(-15)>>)>>,
       <<"axis_maxs", Some(<<Fin(100), NaN>>)>>,
       <<"centerings", Some(<<"Cell", "None">>)>>,
       <<"labels", Some(<<"x", "y axis">>)>>,
       <<"units", Some(<<"mm", "s">>)>>,
       <<"kinds", Some(<<"space", "RGB_color">>)>>,
       <<"space", Some("RAS")>>,
       <<"space_dimension", Some(3)>>,
       <<"space_units", Some(<<"mm", "mm", "mm">>)>>,
       <<"space_origin", Some(<<Fin(0), Fin(15), Fin(-20)>>)>>,
       <<"space_directions", Some(<<Some(<<Fin(10), Fin(0), Fin(0)>>), None>>)>>,
       <<"key_vals", [k \in {"b", "a"} |-> IF k = "a" THEN "1" ELSE "two"]>>,
       <<"comments", <<"# first", "# second">>>>,
       <<"data_file", Some(SingleFile("img.raw"))>>,
       <<"data_file", Some(FileFormat("img%d.raw", 0, 9, 2, None))>>,
       <<"data_file", Some(FileFormat("img%d.raw", 1, 4, 1, Some(2)))>>,
       <<"data_file", Some(List(Some(2), <<"a.raw", "b.raw">>))>>,
       <<"data_file", Some(List(None, <<"a.raw">>))>> >>

\* increasing index sequences into pool of length <= k whose entries have
\* distinct tags (the first component of a pool entry)
RECURSIVE Combos(_, _)
Combos(pool, k) ==
    IF k = 0 THEN {<<>>}
    ELSE LET prev == Combos(pool, k - 1)
         IN  prev \cup UNION
             {{Append(c, i) : i \in {j \in 1..Len(pool) :
                                      \A m \in 1..(k - 1) :
                                         /\ c[m] < j
                                         /\ pool[c[m]][1] # pool[j][1]}} :
                 c \in {p \in prev : Len(p) = k - 1}}

RECURSIVE WithOptions(_, _)
WithOptions(r, c) ==
    IF c = <<>> THEN r
    ELSE WithOptions([r EXCEPT ![OptionChoices[c[1]][1]] = OptionChoices[c[1]][2]], Tail(c))

BaseHeader == MinimalHeader(4, 2, "f32", None, "rawgz", "Little", <<2, 3>>)

\* a record of dimension 2 with up to MaxOptional optional fields set
OptionalHeaders == {WithOptions(BaseHeader, c) : c \in Combos(OptionChoices, MaxOptional)}

\* r with the optional fields of the choices S set (S holds at most one choice
\* for a field)
WithAll(r, S) ==
    [f \in DOMAIN r |->
        IF \E i \in S : OptionChoices[i][1] = f
        THEN OptionChoices[CHOOSE i \in S : OptionChoices[i][1] = f][2]
        ELSE r[f]]

\* for every optional field its first choice, and its last
FirstChoices ==
    {i \in 1..Len(OptionChoices) :
        \A j \in 1..(i - 1) : OptionChoices[j][1] # OptionChoices[i][1]}

LastChoices ==
    {i \in 1..Len(OptionChoices) :
        \A j \in (i + 1)..Len(OptionChoices) : OptionChoices[j][1] # OptionChoices[i][1]}

BlockHeader == MinimalHeader(5, 2, "Block", Some(3), "raw", "Big", <<2, 3>>)

\* records of dimension 2 with every optional field set, two comments and
\* two key/value pairs
FullHeaders ==
    {WithAll(b, S) : b \in {BaseHeader, BlockHeader}, S \in {FirstChoices, LastChoices}}

IsMinimal(r) ==
    r = MinimalHeader(r.magic, r.dimension, r.dtype, r.block_size, r.encoding,
                      r.endian, r.sizes)

(***************************************************************************)
(* Specification SpecRoundTrip: a header record is rendered (to_string),   *)
(* the lines of the text are parsed by from_lines_full and the result is   *)
(* rendered again.                                                         *)
(***************************************************************************)
Idle == ""

RtInit ==
    /\ pc = "start"
    /\ H0 \in MinimalHeaders \cup OptionalHeaders \cup FullHeaders
    /\ h = NoHeader
    /\ lines0 = <<>> /\ lines = <<>>
    /\ text = Idle /\ text2 = Idle
    /\ df = Idle /\ paths = <<>> /\ fs = Idle /\ wr = Idle /\ rd = Idle
    /\ opened = <<>> /\ decoded = <<>>

\* h.to_string()
RtRender ==
    /\ pc = "start"
    /\ text' = HeaderText(H0)
    /\ pc' = "rendered"
    /\ UNCHANGED <<H0, lines0, lines, h, text2, df, paths, fs, wr, rd, opened, decoded>>

\* NRRD::from_lines_full(&mut header_str.lines().collect())
RtParse ==
    /\ pc = "rendered"
    /\ \E r \in {from_lines_full(Lines(text))} :
          /\ lines0' = Lines(text)
          /\ lines' = r.lines
          /\ h' = IF r.ok THEN r.h ELSE NoHeader
          /\ pc' = IF r.ok THEN "parsed" ELSE "panic"
    /\ UNCHANGED <<H0, text, text2, df, paths, fs, wr, rd, opened, decoded>>

\* to_string() of the parsed record
RtRender2 ==
    /\ pc = "parsed"
    /\ text2' = HeaderText(h)
    /\ pc' = "done"
    /\ UNCHANGED <<H0, lines0, lines, h, text, df, paths, fs, wr, rd, opened, decoded>>

RtNext == RtRender \/ RtParse \/ RtRender2

SpecRoundTrip == RtInit /\ [][RtNext]_vars

\* C1: a record that holds only the mandatory fields is parsed back from its
\* own text without a panic, and rendering the parsed record gives exactly
\* the text of the first rendering.
C1_MinimalTextRoundTrip ==
    IsMinimal(H0) => /\ pc # "panic"
                     /\ (pc = "done" => text2 = text)

\* C1 witness: a minimal record of type block has gone through render,
\* parse and render.
C1_Witness == pc = "done" /\ IsMinimal(H0) /\ H0.dtype = "Block" /\ text2 = text

\* C2 (as claimed): parsing the rendered text of any record returns a record
\* equal to it field by field.
C2_TypedRoundTrip == pc # "panic" /\ (pc \in {"parsed", "done"} => h = H0)

\* the lines of the key/value pairs of r with the line of a key at the place
\* given by the number of keys below it
KeyLinesAscending(r) ==
    [i \in 1..Cardinality(DOMAIN r.key_vals) |->
        With(CHOOSE k \in DOMAIN r.key_vals :
                Cardinality({o \in DOMAIN r.key_vals : StrLess(o, k)}) = i - 1,
             LAMBDA k : k \o Value_fmt(r.key_vals[k]))]

\* the line of field f of r as field type T: none when the field is absent,
\* and the directive line and the path lines for an explicit list of files
LineOf(r, T, f, mandatory) ==
    IF mandatory THEN <<Fmt(T, r[f])>>
    ELSE IF r[f] = None THEN <<>> ELSE Split(Fmt(T, r[f][1]), "\n")

\* C12: the rendered text of a record is, line by line: magic, the comments
\* in stored order, dimension, type, block size, encoding, endian, content,
\* min, max, old min, old max, line skip, byte skip, sample units, sizes,
\* spacings, thicknesses, axis mins, axis maxs, centerings, labels, units,
\* kinds, space, space dimension, space units, space origin, space
\* directions, the key/value lines in ascending key order and the data file
\* directive; a present field gives one line and an absent field none.
C12_RenderOrder ==
    pc # "start" =>
        Lines(text) =
            LineOf(H0, "Magic", "magic", TRUE)
            \o H0.comments
            \o LineOf(H0, "Dimension", "dimension", TRUE)
            \o LineOf(H0, "DType", "dtype", TRUE)
            \o LineOf(H0, "BlockSize", "block_size", FALSE)
            \o LineOf(H0, "Encoding", "encoding", TRUE)
            \o LineOf(H0, "Endian", "endian", TRUE)
            \o LineOf(H0, "Content", "content", FALSE)
            \o LineOf(H0, "Min", "min", FALSE)
            \o LineOf(H0, "Max", "max", FALSE)
            \o LineOf(H0, "OldMin", "old_min", FALSE)
            \o LineOf(H0, "OldMax", "old_max", FALSE)
            \o LineOf(H0, "LineSkip", "line_skip", FALSE)
            \o LineOf(H0, "ByteSkip", "byte_skip", FALSE)
            \o LineOf(H0, "SampleUnits", "sample_units", FALSE)
            \o LineOf(H0, "Sizes", "sizes", TRUE)
            \o LineOf(H0, "Spacings", "spacings", FALSE)
            \o LineOf(H0, "Thicknesses", "thicknesses", FALSE)
            \o LineOf(H0, "AxisMins", "axis_mins", FALSE)
            \o LineOf(H0, "AxisMaxs", "axis_maxs", FALSE)
            \o LineOf(H0, "Centerings", "centerings", FALSE)
            \o LineOf(H0, "Labels", "labels", FALSE)
            \o LineOf(H0, "Units", "units", FALSE)
            \o LineOf(H0, "Kinds", "kinds", FALSE)
            \o LineOf(H0, "Space", "space", FALSE)
            \o LineOf(H0, "SpaceDimension", "space_dimension", FALSE)
            \o LineOf(H0, "SpaceUnits", "space_units", FALSE)
            \o LineOf(H0, "SpaceOrigin", "space_origin", FALSE)
            \o LineOf(H0, "SpaceDirections", "space_directions", FALSE)
            \o KeyLinesAscending(H0)
            \o LineOf(H0, "DataFile", "data_file", FALSE)

\* C12 witness: a record of type block with every optional field set, two
\* comments and two key/value pairs has been rendered.
C12_Witness ==
    /\ pc = "rendered"
    /\ H0.dtype = "Block" /\ H0.block_size # None
    /\ \A f \in {"content", "min", "max", "old_min", "old_max", "line_skip",
                  "byte_skip", "sample_units", "spacings", "thicknesses",
                  "axis_mins", "axis_maxs", "centerings", "labels", "units",
                  "kinds", "space", "space_dimension", "space_units",
                  "space_origin", "space_directions", "data_file"} : H0[f] # None
    /\ Len(H0.comments) = 2 /\ Cardinality(DOMAIN H0.key_vals) = 2

(***************************************************************************)
(* Specification SpecParse: a collection of header lines is handed to      *)
(* from_lines_minimal or to from_lines_full.                               *)
(***************************************************************************)
MaxExtra == 1        \* optional lines added to the mandatory lines

\* dimension and sizes of the parsed collections, equal in length or not
ParseShapes == {<<1, <<3>>>>, <<2, <<2, 3>>>>, <<3, <<2, 3>>>>, <<2, <<2, 3, 2>>>>}

ParseBases ==
    {MinimalHeader(4, s[1], t, IF t = "Block" THEN Some(4) ELSE None, "raw", "Little", s[2]) :
        s \in ParseShapes, t \in {"uint8", "Block"}}

\* the lines of the mandatory fields in the order from_lines_minimal reads them
MandatoryLines(r) ==
    <<Magic_fmt(r.magic), Dimension_fmt(r.dimension), DType_fmt(r.dtype)>>
    \o OptLine("BlockSize", r.block_size)
    \o <<Encoding_fmt(r.encoding), Endian_fmt(r.endian), Sizes_fmt(r.sizes)>>

\* lines of the optional fields of the data model, tagged with their field;
\* a list directive comes with its paths and stands last
ExtraPool ==
    << <<"content", <<"content: some text">>>>,
       <<"min", <<"min: 1.5">>>>,
       <<"max", <<"max: 200">>>>,
       <<"old min", <<"old min: -0.5">>>>,
       <<"old min", <<"oldmin: 7">>>>,
       <<"old max", <<"old max: 30">>>>,
       <<"old max", <<"oldmax: 31">>>>,
       <<"line skip", <<"line skip: 2">>>>,
       <<"line skip", <<"lineskip: 1">>>>,
       <<"byte skip", <<"byte skip: -1">>>>,
       <<"byte skip", <<"byteskip: 4">>>>,
       <<"sample units", <<"sample units: mm">>>>,
       <<"spacings", <<"spacings: 1 2.5">>>>,
       <<"thicknesses", <<"thicknesses: 1 nan">>>>,
       <<"axis mins", <<"axis mins: 0 -1.5">>>>,
       <<"axis maxs", <<"axismaxs: 10 nan">>>>,
       <<"centerings", <<"centers: cell none">>>>,
       <<"centerings", <<"centerings: node cell">>>>,
       <<"labels", <<"labels: \"x\" \"y axis\"">>>>,
       <<"units", <<"units: \"mm\" \"s\"">>>>,
       <<"kinds", <<"kinds: space RGB-color">>>>,
       <<"space", <<"space: RAS">>>>,
       <<"space", <<"space: left-posterior-superior">>>>,
       <<"space dimension", <<"space dimension: 3">>>>,
       <<"space units", <<"space units: \"mm\" \"mm\" \"mm\"">>>>,
       <<"space origin", <<"space origin: (0,1.5,-2)">>>>,
       <<"space directions", <<"space directions: (1,0,0) none">>>>,
       <<"key a", <<"a:=1">>>>,
       <<"key b", <<"b:=two">>>>,
       <<"comment", <<"# first">>>>,
       <<"data file", <<"data file: img.raw">>>>,
       <<"data file", <<"datafile: img%d.raw 0 9 2">>>>,
       <<"data file", <<"data file: LIST 2", "a.raw", "b.raw">>>>,
       <<"data file", <<"data file: LIST", "a.raw">>>> >>

\* the optional lines a mandatory line is moved behind
MisplacedPool ==
    << <<"content", <<"content: some text">>>>,
       <<"min", <<"min: 1.5">>>>,
       <<"key a", <<"a:=1">>>>,
       <<"comment", <<"# first">>>>,
       <<"data file", <<"data file: img.raw">>>> >>

RECURSIVE PoolLines(_, _)
PoolLines(pool, c) ==
    IF c = <<>> THEN <<>> ELSE pool[c[1]][2] \o PoolLines(pool, Tail(c))

Swap(ls, i, j) == [k \in 1..Len(ls) |-> IF k = i THEN ls[j] ELSE IF k = j THEN ls[i] ELSE ls[k]]

\* the mandatory lines in order, followed by optional lines
OrderedInputs ==
    {<<b, MandatoryLines(b) \o PoolLines(ExtraPool, c)>> :
        b \in ParseBases, c \in Combos(ExtraPool, MaxExtra)}

\* the same with two lines exchanged
SwappedInputs ==
    UNION {LET ls == MandatoryLines(b) \o PoolLines(MisplacedPool, c)
           IN  {<<b, Swap(ls, i, j)>> : i \in 1..Len(ls), j \in 1..Len(ls)} :
             b \in ParseBases, c \in Combos(MisplacedPool, MaxExtra)}

ParseInit ==
    /\ pc = "start"
    /\ \E inp \in OrderedInputs \cup SwappedInputs :
          /\ H0 = inp[1]
          /\ lines0 = inp[2]
          /\ lines = inp[2]
    /\ h = NoHeader
    /\ text = Idle /\ text2 = Idle
    /\ df = Idle /\ paths = <<>> /\ fs = Idle /\ wr = Idle /\ rd = Idle
    /\ opened = <<>> /\ decoded = <<>>

\* NRRD::from_lines_minimal(&mut lines)
ParseMinimal ==
    /\ pc = "start"
    /\ \E r \in {from_lines_minimal(lines0)} :
          /\ lines' = r.lines
          /\ h' = IF r.ok THEN r.h ELSE NoHeader
          /\ pc' = IF r.ok THEN "minimal" ELSE "minimal_panic"
    /\ UNCHANGED <<H0, lines0, text, text2, df, paths, fs, wr, rd, opened, decoded>>

\* NRRD::from_lines_full(&mut lines)
ParseFull ==
    /\ pc = "start"
    /\ \E r \in {from_lines_full(lines0)} :
          /\ lines' = r.lines
          /\ h' = IF r.ok THEN r.h ELSE NoHeader
          /\ pc' = IF r.ok THEN "full" ELSE "full_panic"
    /\ UNCHANGED <<H0, lines0, text, text2, df, paths, fs, wr, rd, opened, decoded>>

ParseNext == ParseMinimal \/ ParseFull

SpecParse == ParseInit /\ [][ParseNext]_vars

PerAxisFields ==
    {"spacings", "thicknesses", "axis_mins", "axis_maxs", "centerings", "labels",
     "units", "kinds", "space_directions"}

\* C7 (as claimed): every record from_lines_full returns has as many sizes as
\* its dimension says, and as many entries in every per-axis field that is
\* present.
C7_AxisLengthsEnforced ==
    pc = "full" =>
        /\ Len(h.sizes) = h.dimension
        /\ \A f \in PerAxisFields : h[f] # None => Len(h[f][1]) = h.dimension

\* the field names of the data model, as they start a header line
KnownPrefixes ==
    {"NRRD", "dimension: ", "type: ", "block size: ", "blocksize: ", "encoding: ",
     "endian: ", "sizes: ", "content: ", "min: ", "max: ", "old min: ", "oldmin: ",
     "old max: ", "oldmax: ", "line skip: ", "lineskip: ", "byte skip: ", "byteskip: ",
     "sample units: ", "sampleunits: ", "spacings: ", "thicknesses: ", "axis mins: ",
     "axismins: ", "axis maxs: ", "axismaxs: ", "centers: ", "centerings: ", "labels: ",
     "units: ", "kinds: ", "space: ", "space dimension: ", "space units: ",
     "space origin: ", "space directions: ", "data file: ", "datafile: "}

\* every line is a field line, a key/value line, a comment line or a path
\* below a list directive
RecognizedShape(ls) ==
    \A i \in 1..Len(ls) :
        \/ \E p \in KnownPrefixes : StartsWith(ls[i], p)
        \/ Contains(ls[i], ":=")
        \/ StartsWith(ls[i], "#")
        \/ \E j \in 1..(i - 1) :
              StartsWith(ls[j], "data file: LIST") \/ StartsWith(ls[j], "datafile: LIST")

\* C9 (as claimed): when every line of the collection is of a recognized
\* shape, from_lines_full leaves the collection empty.
C9_AllLinesConsumed ==
    (pc = "full" /\ RecognizedShape(lines0)) => lines = <<>>

NotMandatoryLine(l) == \A i \in 1..Len(MandatoryLines(H0)) : MandatoryLines(H0)[i] # l

\* the mandatory lines stand at the front of the collection in reading order
FrontOrdered == SubSeq(lines0, 1, Len(MandatoryLines(H0))) = MandatoryLines(H0)

\* C10: from_lines_minimal finds the line of each mandatory field wherever it
\* stands in the collection: a collection that holds one line of each
\* mandatory field, in any positions, is parsed into the record of those
\* fields and keeps its other lines in their order.
C10_WholeCollectionScan ==
    /\ pc # "minimal_panic"
    /\ pc = "minimal" => /\ h = H0
                         /\ lines = SelectSeq(lines0, NotMandatoryLine)

\* C10 witness: a collection with a mandatory line behind an optional line
\* has been parsed by from_lines_minimal.
C10_Witness ==
    /\ pc = "minimal"
    /\ h = H0
    /\ \E i \in 1..Len(lines0) : \E j \in (i + 1)..Len(lines0) :
          ~NotMandatoryLine(lines0[j]) /\ NotMandatoryLine(lines0[i])

\* C10 (as claimed): from_lines_minimal parses only collections whose
\* mandatory lines stand at the front in the fixed order.
C10_StrictFrontOrder == pc = "minimal" => FrontOrdered

(***************************************************************************)
(* Specification SpecReject: from_lines_minimal and from_lines_full on     *)
(* collections that lack a mandatory line, on the empty collection and on  *)
(* complete collections.                                                   *)
(***************************************************************************)
\* the mandatory lines with one of them left out, followed by optional lines
DroppedInputs ==
    UNION {LET ls == MandatoryLines(b) \o PoolLines(MisplacedPool, c)
           IN  {<<b, RemoveAt(ls, i)>> : i \in 1..Len(MandatoryLines(b))} :
             b \in ParseBases, c \in Combos(MisplacedPool, MaxExtra)}

EmptyInputs == {<<b, <<>>>> : b \in ParseBases}

CompleteInputs ==
    {<<b, MandatoryLines(b) \o PoolLines(MisplacedPool, c)>> :
        b \in ParseBases, c \in Combos(MisplacedPool, MaxExtra)}

RejectInit ==
    /\ pc = "start"
    /\ \E inp \in DroppedInputs \cup EmptyInputs \cup CompleteInputs :
          /\ H0 = inp[1]
          /\ lines0 = inp[2]
          /\ lines = inp[2]
    /\ h = NoHeader
    /\ text = Idle /\ text2 = Idle
    /\ df = Idle /\ paths = <<>> /\ fs = Idle /\ wr = Idle /\ rd = Idle
    /\ opened = <<>> /\ decoded = <<>>

SpecReject == RejectInit /\ [][ParseNext]_vars

\* no line of the given collection is a line of field type T
Absent(T) == \A i \in 1..Len(lines0) : ~Matches(T, lines0[i])

\* the type line of the given collection says block
TypeLineIsBlock ==
    \E i \in 1..Len(lines0) :
        /\ Matches("DType", lines0[i])
        /\ \A j \in 1..(i - 1) : ~Matches("DType", lines0[j])
        /\ DType_from_str(lines0[i]) = [ok |-> TRUE, v |-> "Block"]

Incomplete ==
    \/ lines0 = <<>>
    \/ \E T \in MandatoryDefs : Absent(T)
    \/ TypeLineIsBlock /\ Absent("BlockSize")

\* C11: from_lines_minimal and from_lines_full fail as a whole, returning no
\* record, when the collection is empty, when a line of magic, dimension,
\* type, encoding, endian or sizes is absent, or when the type is block and
\* no block size line is present.
C11_IncompleteRejected ==
    /\ Incomplete => pc \in {"start", "minimal_panic", "full_panic"}
    /\ pc \in {"minimal_panic", "full_panic"} => h = NoHeader

\* C11 witness: from_lines_full has failed on a collection of type block that
\* has every mandatory line but the block size line.
C11_Witness ==
    /\ pc = "full_panic"
    /\ TypeLineIsBlock /\ Absent("BlockSize")
    /\ \A T \in MandatoryDefs : ~Absent(T)

(***************************************************************************)
(* Specification SpecShuffle: the mandatory lines in order, followed by    *)
(* optional field lines and key/value lines in every order.                *)
(***************************************************************************)
MaxShuffle == 3      \* optional and key/value lines behind the mandatory lines

\* one line per optional field type, and key/value lines with distinct keys
ShufflePool ==
    << <<"content", <<"content: some text">>>>,
       <<"min", <<"min: 1.5">>>>,
       <<"old min", <<"old min: -0.5">>>>,
       <<"spacings", <<"spacings: 1 2.5">>>>,
       <<"key a", <<"a:=1">>>>,
       <<"key b", <<"b:=two">>>>,
       <<"data file", <<"data file: LIST">>>> >>

\* the orders of the entries of s
Orderings(s) ==
    {[i \in 1..Len(s) |-> s[p[i]]] :
        p \in {q \in [1..Len(s) -> 1..Len(s)] :
                  \A i, j \in 1..Len(s) : q[i] = q[j] => i = j}}

ShuffleBase == MinimalHeader(4, 2, "uint8", None, "raw", "Little", <<2, 3>>)

ShuffleInit ==
    /\ pc = "start"
    /\ H0 = ShuffleBase
    /\ \E c \in Combos(ShufflePool, MaxShuffle) :
       \E q \in Orderings(PoolLines(ShufflePool, c)) :
          /\ lines0 = MandatoryLines(H0) \o q
          /\ lines = lines0
    /\ h = NoHeader
    /\ text = Idle /\ text2 = Idle
    /\ df = Idle /\ paths = <<>> /\ fs = Idle /\ wr = Idle /\ rd = Idle
    /\ opened = <<>> /\ decoded = <<>>

SpecShuffle == ShuffleInit /\ [][ParseNext]_vars

InLines0(l) == \E i \in 1..Len(lines0) : lines0[i] = l

\* the lines of lines0 with the optional and key/value lines in the order of
\* ShufflePool
PoolOrder ==
    MandatoryLines(H0)
    \o SelectSeq([i \in 1..Len(ShufflePool) |-> ShufflePool[i][2][1]], InLines0)

\* C13 (as claimed): from_lines_full returns the same record and leaves the
\* same lines for a collection and for the collection with its optional and
\* key/value lines put in another order.
C13_OrderIndependent ==
    pc = "full" =>
        With(from_lines_full(PoolOrder), LAMBDA r :
            r.ok /\ r.h = h /\ r.lines = lines)

\* the same for the collections that hold no list directive
C13_NoListOrderIndependent ==
    InLines0("data file: LIST") \/ C13_OrderIndependent

(***************************************************************************)
(* Specification SpecList: the mandatory lines, an explicit list directive *)
(* and the lines of the listed paths.                                      *)
(***************************************************************************)
MaxListed == 2       \* path lines behind the directive

ListDirectives == {"data file: LIST", "datafile: LIST 2"}

\* file names: plain ones, one that starts with '#', one that holds ":=" and
\* one that starts like a field line
ListedNames == {"a.raw", "b.raw", "#1.raw", "k:=v.raw", "content: x.raw"}

PlainNames == {"a.raw", "b.raw"}

ListInit ==
    /\ pc = "start"
    /\ H0 \in {ShuffleBase, BlockHeader}
    /\ \E d \in ListDirectives, ps \in {<<>>} \cup SeqsUpTo(ListedNames, MaxListed) :
          /\ lines0 = MandatoryLines(H0) \o <<d>> \o ps
          /\ lines = lines0
    /\ h = NoHeader
    /\ text = Idle /\ text2 = Idle
    /\ df = Idle /\ paths = <<>> /\ fs = Idle /\ wr = Idle /\ rd = Idle
    /\ opened = <<>> /\ decoded = <<>>

SpecList == ListInit /\ [][ParseNext]_vars

\* the lines behind the directive line
ListedLines == SubSeq(lines0, Len(MandatoryLines(H0)) + 2, Len(lines0))

\* C14 (as claimed): from_lines_full stores the lines behind an explicit
\* list directive as the file paths of the directive, in input order and
\* unchanged, removes them and the directive line, and no other field, no
\* key/value pair and no comment is taken from them.
C14_ListedPathsStored ==
    pc = "full" =>
        /\ h.data_file # None
        /\ h.data_file[1].kind = "List"
        /\ h.data_file[1].file_paths = ListedLines
        /\ lines = <<>>
        /\ h.content = None /\ h.key_vals = NoKeyVals /\ h.comments = <<>>

\* the same for lists of plain file names
C14_PlainPathsStored ==
    (\A i \in 1..Len(ListedLines) : ListedLines[i] \in PlainNames)
        => C14_ListedPathsStored

(***************************************************************************)
(* Specification SpecFields: one field of type df.  Its value H0, given or *)
(* read from a line with one of the accepted spellings, is formatted       *)
(* (text), the text is parsed (h) and the parsed value formatted again     *)
(* (text2).                                                                *)
(***************************************************************************)
EnumeratedDefs == {"Space", "Kinds", "Centerings", "Encoding", "DType", "Endian"}

FieldDefs ==
    {"Magic", "Dimension", "DType", "BlockSize", "Encoding", "Endian", "Sizes",
     "Min", "Max", "OldMin", "OldMax", "LineSkip", "ByteSkip", "SampleUnits",
     "Spacings", "Thicknesses", "AxisMins", "AxisMaxs", "Centerings", "Labels",
     "Units", "Kinds", "Space", "SpaceDimension", "SpaceUnits", "SpaceOrigin",
     "SpaceDirections", "DataFile", "KeyValue"}

Column(table, c) == {table[i][c] : i \in 1..Len(table)}

QuotedLists == {<<>>} \cup SeqsUpTo({"x", "y axis", ""}, 2)

\* values of a field of type T; a key/value line is a pair <<key, value>>
FieldValues(T) ==
    {OptionChoices[i][2][1] :
        i \in {j \in 1..Len(OptionChoices) :
                  T # "KeyValue" /\ OptionChoices[j][1] = FieldOf(T)}}
    \cup CASE T = "Space" -> Column(SpaceNames, 1)
           [] T = "Kinds" -> {<<k>> : k \in Column(KindNames, 1)}
           [] T = "Centerings" -> SeqsUpTo({"Cell", "Node", "None"}, 2)
           [] T = "Encoding" -> Encodings
           [] T = "DType" -> DTypes
           [] T = "Endian" -> Endians
           [] T = "Magic" -> 1..MaxVersion
           [] T \in {"Dimension", "BlockSize", "LineSkip", "SpaceDimension"} ->
                 {0, 1, 9, 10, 128}
           [] T = "ByteSkip" -> {Skip(0), Skip(10), Rev}
           [] T = "Sizes" -> SeqsUpTo(1..MaxSize, MaxDim)
           [] T \in {"Labels", "Units", "SpaceUnits"} -> QuotedLists
           [] T = "KeyValue" -> {<<"a", "1">>, <<"key b", "two words">>, <<"c", "">>}
           [] T = "DataFile" -> {List(None, <<>>), List(Some(2), <<>>)}
           [] OTHER -> {}

\* lines with the accepted spellings of the enumerated fields
SpellingLines(T) ==
    CASE T = "Space" -> {"space: " \o x : x \in Column(SpaceSpellings, 1) \cup {"RAS", "Lps"}}
      [] T = "Kinds" -> {"kinds: " \o x : x \in Column(KindSpellings, 1)}
      [] T = "Centerings" -> {"centerings: cell node none", "centers: node ???"}
      [] T = "Encoding" ->
            {"encoding: " \o x : x \in Column(EncodingSpellings, 1) \cup {"GZIP", "Raw"}}
      [] T = "DType" -> {"type: " \o x : x \in Column(DTypeSpellings, 1)}
      [] T = "Endian" -> {"endian: big", "endian: little", "endian: Big"}
      [] OTHER -> {}

\* T::from_str: idx(s).unwrap() panics when the line holds no pattern of T
field_from_str(T, s) ==
    IF T = "KeyValue"
    THEN IF ~Value_matches_key_value(s) THEN [ok |-> FALSE, v |-> <<>>]
         ELSE [ok |-> TRUE, v |-> <<Value_key(s), Value_from_str(s).v>>]
    ELSE IF Idx(T, s) < 0 THEN [ok |-> FALSE, v |-> <<>>]
    ELSE FromStr(T, s)

\* to_string of a field; a key/value pair is written as key and value
field_fmt(T, v) == IF T = "KeyValue" THEN v[1] \o Value_fmt(v[2]) ELSE Fmt(T, v)

FieldInit ==
    /\ \E T \in FieldDefs :
          /\ df = T
          /\ \/ pc = "start" /\ H0 \in FieldValues(T) /\ lines0 = <<>>
             \/ pc = "line" /\ H0 = None /\ \E l \in SpellingLines(T) : lines0 = <<l>>
    /\ h = None /\ lines = lines0
    /\ text = Idle /\ text2 = Idle
    /\ paths = <<>> /\ fs = Idle /\ wr = Idle /\ rd = Idle
    /\ opened = <<>> /\ decoded = <<>>

\* T::from_str(line)
FieldRead ==
    /\ pc = "line"
    /\ \E r \in {field_from_str(df, lines0[1])} :
          /\ H0' = IF r.ok THEN r.v ELSE H0
          /\ pc' = IF r.ok THEN "start" ELSE "panic"
    /\ UNCHANGED <<lines0, lines, h, text, text2, df, paths, fs, wr, rd, opened, decoded>>

\* value.to_string()
FieldFormat ==
    /\ pc = "start"
    /\ text' = field_fmt(df, H0)
    /\ pc' = "formatted"
    /\ UNCHANGED <<H0, lines0, lines, h, text2, df, paths, fs, wr, rd, opened, decoded>>

\* T::from_str(&text)
FieldParse ==
    /\ pc = "formatted"
    /\ \E r \in {field_from_str(df, text)} :
          /\ h' = IF r.ok THEN r.v ELSE h
          /\ pc' = IF r.ok THEN "parsed" ELSE "panic"
    /\ UNCHANGED <<H0, lines0, lines, text, text2, df, paths, fs, wr, rd, opened, decoded>>

\* to_string() of the parsed value
FieldFormat2 ==
    /\ pc = "parsed"
    /\ text2' = field_fmt(df, h)
    /\ pc' = "done"
    /\ UNCHANGED <<H0, lines0, lines, h, text, df, paths, fs, wr, rd, opened, decoded>>

FieldNext == FieldRead \/ FieldFormat \/ FieldParse \/ FieldFormat2

SpecFields == FieldInit /\ [][FieldNext]_vars

\* the formatted text of the value is parsed back to the value, and
\* formatting the parsed value gives the same text
FieldRoundTrip ==
    /\ pc # "panic"
    /\ pc \in {"parsed", "done"} => h = H0
    /\ pc = "done" => text2 = text

\* C15 (as claimed): for the enumerated fields space, kinds, centerings,
\* encoding, type and endian, a value, given or read from any accepted
\* spelling, is formatted as one spelling that parses back to the value:
\* parse(format(v)) = v and format(parse(format(v))) = format(v).
C15_EnumeratedRoundTrip == df \in EnumeratedDefs => FieldRoundTrip

\* C16 (as claimed): for every field type other than content and comments,
\* parse(format(v)) = v and format(parse(format(v))) = format(v); among the
\* values are quoted-string lists with empty entries, key/value lines and the
\* three forms of the data file directive.
C16_FieldRoundTrip == df \in FieldDefs => FieldRoundTrip

(***************************************************************************)
(* Specification SpecPaths: a data-file directive line is parsed and its   *)
(* paths are resolved.                                                     *)
(***************************************************************************)
MaxIndex == 9        \* largest |min| and |max| of a numbered sequence

MaxStep == 3         \* largest |step| of a numbered sequence

PathFormats == {"img%d.raw", "s%03d.gz"}

DirectiveLines ==
    {DataFile_fmt(FileFormat(f, lo, hi, st, None)) :
        f \in PathFormats, lo \in -MaxIndex..MaxIndex, hi \in -MaxIndex..MaxIndex,
        st \in -MaxStep..MaxStep}
    \cup {"data file: img.raw", "datafile: LIST 3"}

PathsInit ==
    /\ pc = "start"
    /\ text \in DirectiveLines
    /\ df = SingleFile("")
    /\ paths = <<>>
    /\ H0 = NoHeader /\ h = NoHeader
    /\ lines0 = <<>> /\ lines = <<>> /\ text2 = Idle
    /\ fs = Idle /\ wr = Idle /\ rd = Idle
    /\ opened = <<>> /\ decoded = <<>>

\* line.parse::<DataFile>()
PathsParse ==
    /\ pc = "start"
    /\ \E r \in {DataFile_from_str(text)} :
          /\ df' = r.v
          /\ pc' = IF r.ok THEN "parsed" ELSE "panic"
    /\ UNCHANGED <<H0, lines0, lines, h, text, text2, paths, fs, wr, rd, opened, decoded>>

\* datafile.paths()
PathsResolve ==
    /\ pc = "parsed"
    /\ \E r \in {DataFile_paths(df)} :
          /\ paths' = r.v
          /\ pc' = IF r.ok THEN "resolved" ELSE "panic"
    /\ UNCHANGED <<H0, lines0, lines, h, text, text2, df, fs, wr, rd, opened, decoded>>

PathsNext == PathsParse \/ PathsResolve

SpecPaths == PathsInit /\ [][PathsNext]_vars

\* |min|, |min| + |step|, ... up to |max|
AscendingIndices(lo, hi, st) ==
    IF st = 0 \/ Abs(lo) > Abs(hi) THEN <<>>
    ELSE [k \in 1..((Abs(hi) - Abs(lo)) \div Abs(st) + 1) |-> Abs(lo) + (k - 1) * Abs(st)]

\* |min|, |min| - |step|, ... down to |max|
DescendingIndices(lo, hi, st) ==
    IF st = 0 \/ Abs(lo) < Abs(hi) THEN <<>>
    ELSE [k \in 1..((Abs(lo) - Abs(hi)) \div Abs(st) + 1) |-> Abs(lo) - (k - 1) * Abs(st)]

Reverse(q) == [k \in 1..Len(q) |-> q[Len(q) + 1 - k]]

Formatted(f, idx) == [k \in 1..Len(idx) |-> Sprintf(f, idx[k]).v]

MaxElems == 2        \* elements of a written buffer

\* bit patterns of the elements of a written buffer
ElemValues(T) == IF T = "u8" THEN {10, 65, 200} ELSE {2570, 16706, 51265}

WriteShape == <<1, MaxElems>>

\* the reference header of a write: of another type, encoding and byte
\* order than the write, with or without a data file and skips of its own
RefHeader(sz, dirty) ==
    LET r == MinimalHeader(MaxVersion, Len(sz), "f32", None, "txt", "Big", sz)
    IN  IF dirty
        THEN [r EXCEPT !.data_file = Some(SingleFile("old.raw")),
                       !.byte_skip = Some(Skip(3)), !.line_skip = Some(1)]
        ELSE r

NoWrite ==
    [filepath |-> "", data |-> <<>>, T |-> "u8", attached |-> FALSE,
     encoding |-> "raw", native |-> "Little"]

ReadState(p) ==
    [path |-> p, pos |-> 0, buf |-> <<>>, k |-> 1, bpf |-> 0, line_skip |-> 0,
     byte_skip |-> 0, read_tail |-> FALSE, elems |-> <<>>, why |-> ""]

\* payload files next to a header file that is already there
ReadFiles ==
    << <<"s/a.raw", <<11, 10, 12, 13, 14, 15, 16, 17>>>>,
       <<"s/b.raw", <<21, 10, 22, 23, 24, 25, 26, 27>>>>,
       <<"s/c.raw", <<31, 10, 32, 33, 34, 35, 36, 37>>>>,
       <<"s/f1.raw", <<41, 10, 42, 43, 44, 45, 46, 47>>>>,
       <<"s/f2.raw", <<51, 10, 52, 53, 54, 55, 56, 57>>>> >>

ReadDirectives ==
    {None,
     Some(SingleFile("a.raw")),
     Some(List(None, <<"a.raw", "b.raw">>)),
     Some(List(None, <<"a.raw", "b.raw", "c.raw">>)),
     Some(FileFormat("f%d.raw", 1, 2, 1, None)),
     Some(FileFormat("f%d.raw", 1, 2, 0, None))}

ReadShapes == {<<2>>, <<3>>, <<2, 2>>, <<2, 3>>}

ReadHeader(sz, enc, d, bs, ls) ==
    [MinimalHeader(4, Len(sz), "uint8", None, enc, "Little", sz)
        EXCEPT !.data_file = d, !.byte_skip = bs, !.line_skip = ls]

\* a stored payload: the bytes io::write_raw, io::write_gzip or io::write_bzip2
\* put in a file for the payload
StoredPayload(e, payload) ==
    CASE e = "raw" -> write_raw(payload)
      [] e = "rawgz" -> write_gzip(payload)
      [] e = "rawbz2" -> write_bzip2(payload)

\* the files of a read: the header file, with the payload behind a blank
\* line when there is no directive, and the payload files but the one gone
ReadFs(r, gone) ==
    LET enc == IF r.encoding \in {"raw", "rawgz", "rawbz2"} THEN r.encoding ELSE "raw"
        present == {i \in 1..Len(ReadFiles) : ReadFiles[i][1] # gone}
        name(n) == CHOOSE i \in present : ReadFiles[i][1] = n
        side == [n \in {ReadFiles[i][1] : i \in present} |->
                   StoredPayload(enc, ReadFiles[name(n)][2])]
    IN  Create(side, "s/d.nhdr",
               as_bytes(HeaderText(r))
               \o (IF r.data_file = None
                   THEN <<10>> \o StoredPayload(enc, ReadFiles[1][2])
                   ELSE <<>>))

IoInitWrite ==
    /\ pc = "w_start"
    /\ fs = NoFiles
    /\ \E filepath \in {"out", "d/out.x"}, T \in {"u8", "u16"} :
          /\ H0 = RefHeader(WriteShape, filepath # "out")
          /\ \E data \in [1..Product(WriteShape) -> ElemValues(T)],
                attached \in BOOLEAN,
                encoding \in {"raw", "rawgz", "rawbz2"}, native \in Endians :
                wr = [filepath |-> filepath, data |-> data, T |-> T,
                      attached |-> attached, encoding |-> encoding, native |-> native]
    /\ rd = ReadState("")

IoInitRead ==
    /\ pc = "r_start"
    /\ H0 = NoHeader
    /\ wr = NoWrite
    /\ rd = ReadState("s/d.nhdr")
    /\ \E sz \in ReadShapes, enc \in {"raw", "rawgz", "rawbz2", "txt"},
          d \in ReadDirectives, bs \in {None, Some(Skip(1)), Some(Rev)},
          ls \in {None, Some(1)},
          gone \in {"", "s/a.raw", "s/b.raw", "s/f2.raw"} :
          fs = ReadFs(ReadHeader(sz, enc, d, bs, ls), gone)

IoInit ==
    /\ IoInitWrite \/ IoInitRead
    /\ h = NoHeader
    /\ lines0 = <<>> /\ lines = <<>>
    /\ text = Idle /\ text2 = Idle
    /\ df = Idle /\ paths = <<>>
    /\ opened = <<>> /\ decoded = <<>>

\* write_nrrd(filepath, &H0, &data, attached, encoding), then
\* read_nrrd_to on the header file it wrote
IoWrite ==
    /\ pc = "w_start"
    /\ \E w \in {write_nrrd(fs, wr.filepath, H0, wr.data, wr.T, wr.attached,
                           wr.encoding, wr.native)} :
          /\ fs' = w.fs
          /\ pc' = IF w.ok THEN "r_start" ELSE "panic"
          /\ rd' = IF w.ok
                   THEN ReadState(with_extension(wr.filepath,
                                      IF wr.attached THEN "nrrd" ELSE "nhdr"))
                   ELSE [rd EXCEPT !.why = "length"]
    /\ UNCHANGED <<H0, lines0, lines, h, text, text2, df, paths, wr, opened, decoded>>

\* the head of read_payload (and read_header): the file is opened, read up
\* to its blank line and parsed; why names the panic, "" when there is none
read_header(f, filepath) ==
    IF ~Exists(f, filepath)
    THEN [why |-> "open", h |-> NoHeader, text |-> "", lines |-> <<>>, pos |-> 0]
    ELSE With(read_until_blank(f[filepath], 0, <<>>), LAMBDA r :
         With(from_utf8(r.acc), LAMBDA t :
             IF ~t.ok
             THEN [why |-> "utf8", h |-> NoHeader, text |-> "", lines |-> <<>>,
                   pos |-> r.pos]
             ELSE With(from_lines_full(Lines(t.v)), LAMBDA p :
                      [why |-> IF ~p.ok THEN "header"
                               ELSE IF ~expected_bytes(p.h).ok THEN "block size"
                               ELSE "",
                       h |-> p.h, text |-> t.v, lines |-> p.lines, pos |-> r.pos])))

\* read_payload up to the skips: the header is read and the zeroed buffer
\* is made
IoReadHeader ==
    /\ pc = "r_start"
    /\ \E res \in {read_header(fs, rd.path)} :
          IF res.why # ""
          THEN /\ pc' = "panic"
               /\ rd' = [rd EXCEPT !.why = res.why]
               /\ UNCHANGED <<h, text, lines0, lines>>
          ELSE /\ pc' = "r_header"
               /\ h' = res.h
               /\ text' = res.text
               /\ lines0' = Lines(res.text)
               /\ lines' = res.lines
               /\ rd' = [rd EXCEPT
                           !.pos = res.pos,
                           !.buf = BufZeros(expected_bytes(res.h).v),
                           !.line_skip = IF res.h.line_skip = None THEN 0
                                         ELSE res.h.line_skip[1],
                           !.byte_skip = IF res.h.byte_skip = None THEN 0
                                         ELSE ByteSkip_to_skip(res.h.byte_skip[1]),
                           !.read_tail = IF res.h.byte_skip = None THEN FALSE
                                         ELSE ByteSkip_read_tail(res.h.byte_skip[1])]
    /\ UNCHANGED <<H0, text2, df, paths, fs, wr, opened, decoded>>

\* detached: datafile.paths() and the resolution of the relative paths
IoResolve ==
    /\ pc = "r_header"
    /\ h.data_file # None
    /\ \E r \in {DataFile_paths(h.data_file[1])} :
          IF r.ok
          THEN /\ paths' = resolved_paths(r.v, rd.path)
               /\ pc' = "r_resolved"
               /\ rd' = rd
          ELSE /\ paths' = paths
               /\ pc' = "panic"
               /\ rd' = [rd EXCEPT !.why = "sprintf"]
    /\ df' = h.data_file[1]
    /\ UNCHANGED <<H0, lines0, lines, h, text, text2, fs, wr, opened, decoded>>

\* detached: every resolved path is checked to exist
IoCheckExist ==
    /\ pc = "r_resolved"
    /\ IF AllExist(fs, paths)
       THEN pc' = "r_exist" /\ rd' = rd
       ELSE pc' = "panic" /\ rd' = [rd EXCEPT !.why = "missing"]
    /\ UNCHANGED <<H0, lines0, lines, h, text, text2, df, paths, fs, wr, opened, decoded>>

\* detached: div_rem_euclid by the number of files, the assertion on the
\* remainder, and chunks_exact_mut, which takes no chunk size 0
IoDivide ==
    /\ pc = "r_exist"
    /\ LET n == Len(paths)
           total == Len(rd.buf)
           why == IF n = 0 THEN "no files"
                  ELSE IF total % n # 0 THEN "remainder"
                  ELSE IF total \div n = 0 THEN "chunk size"
                  ELSE ""
       IN  IF why # ""
           THEN pc' = "panic" /\ rd' = [rd EXCEPT !.why = why]
           ELSE pc' = "r_chunks" /\ rd' = [rd EXCEPT !.bpf = total \div n]
    /\ UNCHANGED <<H0, lines0, lines, h, text, text2, df, paths, fs, wr, opened, decoded>>

\* detached: the next chunk and path of the zip: the file is opened, its
\* lines are skipped and it is read into the chunk
IoReadChunk ==
    /\ pc = "r_chunks"
    /\ LET file == paths[rd.k]
           content == fs[file]
           from == ChunkStart(rd.k, rd.bpf)
           chunk == SubSeq(rd.buf, from + 1, from + rd.bpf)
           r == read_encoded(content, skip_lines(content, 0, rd.line_skip), h.encoding, chunk,
                             rd.byte_skip)
       IN  IF ~Exists(fs, file)
           THEN /\ pc' = "panic"
                /\ rd' = [rd EXCEPT !.why = "open"]
                /\ UNCHANGED <<opened, decoded>>
           ELSE /\ opened' = Append(opened, file)
                /\ decoded' = IF h.encoding \in {"rawgz", "rawbz2"}
                              THEN Append(decoded, file) ELSE decoded
                /\ pc' = IF ~r.ok THEN "panic"
                         ELSE IF rd.k = Len(paths) THEN "r_done" ELSE "r_chunks"
                /\ rd' = IF ~r.ok
                         THEN [rd EXCEPT !.why = IF r.known THEN "read" ELSE "encoding"]
                         ELSE [rd EXCEPT
                                 !.k = rd.k + 1,
                                 !.buf = SubSeq(rd.buf, 1, from) \o r.v
                                         \o SubSeq(rd.buf, from + rd.bpf + 1, Len(rd.buf))]
    /\ UNCHANGED <<H0, lines0, lines, h, text, text2, df, paths, fs, wr>>

\* attached: the lines are skipped in the header file and the payload is
\* read from it, from its tail for raw with byte skip -1
IoReadAttached ==
    /\ pc = "r_header"
    /\ h.data_file = None
    /\ LET content == fs[rd.path]
           pos == skip_lines(content, rd.pos, rd.line_skip)
           r == IF h.encoding = "raw" /\ rd.read_tail
                THEN [ok |-> TRUE, v |-> read_tail(content, rd.buf), known |-> TRUE]
                ELSE read_encoded(content, pos, h.encoding, rd.buf, rd.byte_skip)
       IN  /\ decoded' = IF h.encoding \in {"rawgz", "rawbz2"}
                         THEN Append(decoded, rd.path) ELSE decoded
           /\ pc' = IF r.ok THEN "r_done" ELSE "panic"
           /\ rd' = IF r.ok THEN [rd EXCEPT !.buf = r.v, !.pos = pos]
                    ELSE [rd EXCEPT !.why = IF r.known THEN "read" ELSE "encoding"]
    /\ UNCHANGED <<H0, lines0, lines, h, text, text2, df, paths, fs, wr, opened>>

\* read_nrrd_to: the bytes are converted to the elements of the header's
\* type
IoConvert ==
    /\ pc = "r_done"
    /\ \E e \in {read_elements(rd.buf, h)} :
          IF e.ok
          THEN pc' = "r_elems" /\ rd' = [rd EXCEPT !.elems = e.v]
          ELSE pc' = "panic" /\ rd' = [rd EXCEPT !.why = "convert"]
    /\ UNCHANGED <<H0, lines0, lines, h, text, text2, df, paths, fs, wr, opened, decoded>>

IoNext ==
    \/ IoWrite
    \/ IoReadHeader
    \/ IoResolve
    \/ IoCheckExist
    \/ IoDivide
    \/ IoReadChunk
    \/ IoReadAttached
    \/ IoConvert

SpecIO == IoInit /\ [][IoNext]_vars

\* C3 (as claimed): write_nrrd followed by read_nrrd_to on the written
\* header file does not fail and returns the elements that were written.
C3_WriteReadRoundTrip ==
    wr.filepath # "" => /\ pc # "panic"
                        /\ (pc = "r_elems" => rd.elems = wr.data)

Detached == h.data_file # None

\* the bytes read_payload reads from a path into a chunk of n bytes
BytesReadFrom(p, n) ==
    read_encoded(fs[p], skip_lines(fs[p], 0, rd.line_skip), h.encoding, BufZeros(n),
                 rd.byte_skip).v

\* C5: a detached read that ends returns a buffer of product(sizes) *
\* element_size bytes in which the k-th of N equal regions holds the bytes
\* read from the k-th path (for raw without skips, the first bytes of that
\* file).
C5_ChunkLayout ==
    (Detached /\ pc \in {"r_done", "r_elems"}) =>
        LET total == expected_bytes(h).v
            N == Len(paths)
        IN  /\ N >= 1
            /\ Len(rd.buf) = total
            /\ total % N = 0
            /\ \A k \in 1..N :
                  /\ SubSeq(rd.buf, (k - 1) * (total \div N) + 1, k * (total \div N))
                        = BytesReadFrom(paths[k], total \div N)
                  /\ (h.encoding = "raw" /\ rd.line_skip = 0 /\ rd.byte_skip = 0)
                        => SubSeq(rd.buf, (k - 1) * (total \div N) + 1, k * (total \div N))
                              = SubSeq(fs[paths[k]], 1, total \div N)

\* C5 witness: a raw payload in three files has been read, each region
\* holding the first bytes of its file.
C5_Witness ==
    /\ Detached /\ pc = "r_done"
    /\ Len(paths) = 3 /\ h.encoding = "raw"
    /\ rd.buf = <<11, 10, 21, 10, 31, 10>>

\* C6: in a detached read a payload file is opened only when every resolved
\* path exists and the byte count divides evenly by the number of paths;
\* with a path missing or a remainder the read does not get to its chunks,
\* no file has been opened, no decompressor run and the buffer is untouched.
C6_ChecksBeforeOpen ==
    LET N == Len(paths)
        bad == \/ \E i \in 1..N : ~Exists(fs, paths[i])
               \/ (N > 0 /\ Len(rd.buf) % N # 0)
    IN  /\ opened # <<>> => ~bad /\ N > 0
        /\ (Detached /\ bad) =>
              /\ opened = <<>>
              /\ decoded = <<>>
              /\ rd.buf = BufZeros(Len(rd.buf))
              /\ pc \in {"r_resolved", "r_exist", "panic"}

\* C6 witness: the read has failed on a missing second path with the first
\* path there and not opened.
C6_Witness ==
    /\ pc = "panic" /\ rd.why = "missing"
    /\ Len(paths) >= 2
    /\ Exists(fs, paths[1])
    /\ opened = <<>>

\* C8 (as claimed): with byte skip -1 and gzip or bzip2 the read fails, and
\* no decompressor is run.
C8_TailSkipNeedsRaw ==
    (h.byte_skip = Some(Rev) /\ h.encoding \in {"rawgz", "rawbz2"}) =>
        /\ decoded = <<>>
        /\ pc \notin {"r_done", "r_elems"}

\* the last n bytes of a file
Tail_of(bs, n) == SubSeq(bs, Len(bs) - n + 1, Len(bs))

\* C18 (as claimed): with raw encoding and byte skip -1 a read that ends
\* returns the last product(sizes) * element_size bytes of the file that
\* holds the payload, and for a detached header the last chunk-size bytes of
\* each payload file, in the region of that file.
C18_TailRead ==
    (pc \in {"r_done", "r_elems"} /\ h.encoding = "raw" /\ h.byte_skip = Some(Rev)) =>
        IF Detached
        THEN \A k \in 1..Len(paths) :
                SubSeq(rd.buf, (k - 1) * rd.bpf + 1, k * rd.bpf)
                    = Tail_of(fs[paths[k]], rd.bpf)
        ELSE rd.buf = Tail_of(fs[rd.path], Len(rd.buf))

\* the same for the attached reads
C18_AttachedTailRead == Detached \/ C18_TailRead

\* the stream a payload is read from: the bytes of the file behind the
\* cursor, as the reader of the encoding yields them
PayloadStream(p, pos) ==
    CASE h.encoding = "rawgz" -> GzDecoder_read(SubSeq(fs[p], pos + 1, Len(fs[p])))
      [] h.encoding = "rawbz2" -> BzDecode(SubSeq(fs[p], pos + 1, Len(fs[p]))).v
      [] OTHER -> SubSeq(fs[p], pos + 1, Len(fs[p]))

\* the bytes a stream holds for a chunk, behind the skipped bytes
Available(p, pos) == Len(PayloadStream(p, pos)) - rd.byte_skip

\* C19 (as claimed): a read that ends has found, in every payload stream
\* behind the line skip, the decompression and the byte skip (in the file,
\* for a read from the tail), the bytes of the whole chunk: no read ends with
\* a chunk that is filled in part.
C19_NoPartialBuffer ==
    pc \in {"r_done", "r_elems"} =>
        IF Detached
        THEN \A k \in 1..Len(paths) :
                Available(paths[k], skip_lines(fs[paths[k]], 0, rd.line_skip)) >= rd.bpf
        ELSE IF h.encoding = "raw" /\ rd.read_tail
        THEN Len(fs[rd.path]) >= Len(rd.buf)
        ELSE Available(rd.path, rd.pos) >= Len(rd.buf)

\* the files a write has created
Written == DOMAIN fs

\* the extension of the payload file of an encoding
SideExt == CASE wr.encoding = "raw" -> "raw"
             [] wr.encoding = "rawgz" -> "raw.gz"
             [] wr.encoding = "rawbz2" -> "raw.bz2"

\* the bytes of the written elements, encoded
EncodedData ==
    StoredPayload(wr.encoding,
                  cast_slice(wr.data, IF wr.T = "u8" THEN 1 ELSE 2, wr.native))

\* the written files are base.nrrd, or base.nhdr and base.raw, base.raw.gz
\* or base.raw.bz2 with the encoded payload alone, the header names the
\* payload file by the file name name.*, and the read of base.nhdr resolves
\* that file
WritesAt(base, name) ==
    IF wr.attached THEN Written = {base \o ".nrrd"}
    ELSE /\ Written = {base \o ".nhdr", base \o "." \o SideExt}
         /\ fs[base \o "." \o SideExt] = EncodedData
         /\ \E i \in 1..Len(Lines(CharsOf(fs[base \o ".nhdr"]))) :
               Lines(CharsOf(fs[base \o ".nhdr"]))[i] = "data file: " \o name \o "." \o SideExt
         /\ pc \in {"r_resolved", "r_exist", "r_chunks", "r_done", "r_elems"}
               => paths = <<base \o "." \o SideExt>>

\* the write has been made
Wrote == wr.filepath # "" /\ pc # "w_start"

\* C21 (as claimed): a write at P creates P.nrrd alone when attached, and
\* P.nhdr with one payload file P.raw, P.raw.gz or P.raw.bz2 when detached.
C21_FilesAtP == Wrote => WritesAt(wr.filepath, file_name(wr.filepath))

\* C21 (amended): the names are those of P with the extension of its last
\* component, if it has one, replaced: for P = "out" the files are out.nrrd,
\* or out.nhdr and out.raw (out.raw.gz, out.raw.bz2); for P = "d/out.x" they
\* are d/out.nrrd, or d/out.nhdr and d/out.raw (..), the header naming
\* out.raw (..).  The payload file holds the encoded payload alone and the
\* read of the header file resolves that file.
C21_FilesAtStem ==
    Wrote => CASE wr.filepath = "out" -> WritesAt("out", "out")
               [] wr.filepath = "d/out.x" -> WritesAt("d/out", "out")

\* C21 witness: a detached gzip write at d/out.x, whose header has been read
\* and resolved to d/out.raw.gz.
C21_Witness ==
    /\ pc = "r_resolved" /\ wr.filepath = "d/out.x" /\ ~wr.attached
    /\ wr.encoding = "rawgz"
    /\ paths = <<"d/out.raw.gz">>

\* the payload of a gzip stream
Gunzip(bs) ==
    IF Len(bs) > Len(GzMagic) /\ SubSeq(bs, 1, Len(GzMagic)) = GzMagic
    THEN SubSeq(bs, Len(GzMagic) + 1, Len(bs) - 1)
    ELSE <<>>

\* the decoded stream of a payload file behind the skipped lines
DecodedStream(p, pos) ==
    LET s == SubSeq(fs[p], skip_lines(fs[p], pos, rd.line_skip) + 1, Len(fs[p]))
    IN  CASE h.encoding = "rawgz" -> Gunzip(s)
          [] h.encoding = "rawbz2" -> BzDecode(s).v
          [] OTHER -> s

\* a chunk holds the bytes of the decoded stream behind the skipped bytes,
\* when the stream has that many
InOrder(p, pos, chunk) ==
    Len(DecodedStream(p, pos)) - rd.byte_skip >= Len(chunk) =>
        chunk = SubSeq(DecodedStream(p, pos), rd.byte_skip + 1,
                       rd.byte_skip + Len(chunk))

\* C23: in a read that ends, with a byte skip that is a count, every chunk
\* holds the bytes found by skipping line_skip lines of the file, decoding
\* what follows, discarding byte_skip bytes of the decoded stream and taking
\* the bytes of the chunk.
C23_SkipDecodeSkip ==
    (pc \in {"r_done", "r_elems"} /\ h.byte_skip # Some(Rev)) =>
        IF Detached
        THEN \A k \in 1..Len(paths) :
                InOrder(paths[k], 0, SubSeq(rd.buf, (k - 1) * rd.bpf + 1, k * rd.bpf))
        ELSE InOrder(rd.path, rd.pos, rd.buf)

\* the same for raw and bzip2 payloads
C23_RawBzip2SkipDecodeSkip == h.encoding = "rawgz" \/ C23_SkipDecodeSkip

(***************************************************************************)
(* Specification SpecBuild: the operations that hand out a header record:  *)
(* new_from_dims, new_from_type_dims, from_lines_minimal, from_lines_full  *)
(* and write_nrrd, whose written header is kept in h.                      *)
(***************************************************************************)
\* NRRD::new_from_dims::<T>(dims); magic and endian stand for
\* Magic::default() and Endian::default()
new_from_dims(T, dims, magic, endian) ==
    MinimalHeader(magic, Len(dims), NRRDType_dtype(T), None, "raw", endian, dims)

\* NRRD::new_from_type_dims(t, dims)
new_from_type_dims(t, dims, magic, endian) ==
    [new_from_dims("u8", dims, magic, endian) EXCEPT !.dtype = t]

\* reference headers of a write: plain, with stale fields, of type block and
\* with every optional field set
BuildRefs ==
    {RefHeader(WriteShape, FALSE), RefHeader(WriteShape, TRUE),
     [RefHeader(WriteShape, FALSE) EXCEPT !.dtype = "Block", !.block_size = Some(4)]}
    \cup {[r EXCEPT !.dimension = Len(WriteShape), !.sizes = WriteShape] : r \in FullHeaders}

BuildInitNew ==
    /\ pc = "n_start" /\ H0 = NoHeader /\ wr = NoWrite /\ lines0 = <<>>

BuildInitParse ==
    /\ pc = "start" /\ H0 = NoHeader /\ wr = NoWrite
    /\ \E b \in ParseBases, x \in {<<>>, <<"block size: 7">>, <<"content: c">>} :
          lines0 = MandatoryLines(b) \o x

BuildInitWrite ==
    /\ pc = "b_start" /\ lines0 = <<>>
    /\ H0 \in BuildRefs
    /\ \E T \in {"u8", "u16"}, n \in (MaxElems - 1)..MaxElems, attached \in BOOLEAN,
          encoding \in {"raw", "rawgz", "rawbz2"}, native \in Endians :
          wr = [filepath |-> "d/out.x", T |-> T, attached |-> attached,
                data |-> [i \in 1..n |-> CHOOSE e \in ElemValues(T) : TRUE],
                encoding |-> encoding, native |-> native]

BuildInit ==
    /\ BuildInitNew \/ BuildInitParse \/ BuildInitWrite
    /\ h = NoHeader /\ lines = lines0
    /\ fs = NoFiles /\ rd = ReadState("")
    /\ text = Idle /\ text2 = Idle
    /\ df = Idle /\ paths = <<>>
    /\ opened = <<>> /\ decoded = <<>>

\* NRRD::new_from_dims::<T>(&dims)
BuildNewFromDims ==
    /\ pc = "n_start"
    /\ \E T \in {"u8", "u16"}, dims \in SeqsUpTo(1..MaxSize, MaxDim),
          magic \in (MaxVersion - 1)..MaxVersion, endian \in Endians :
          h' = new_from_dims(T, dims, magic, endian)
    /\ pc' = "new"
    /\ UNCHANGED <<H0, lines0, lines, text, text2, df, paths, fs, wr, rd, opened, decoded>>

\* NRRD::new_from_type_dims(t, &dims)
BuildNewFromTypeDims ==
    /\ pc = "n_start"
    /\ \E t \in DTypes, dims \in SeqsUpTo(1..MaxSize, MaxDim),
          magic \in (MaxVersion - 1)..MaxVersion, endian \in Endians :
          h' = new_from_type_dims(t, dims, magic, endian)
    /\ pc' = "typed"
    /\ UNCHANGED <<H0, lines0, lines, text, text2, df, paths, fs, wr, rd, opened, decoded>>

\* write_nrrd(filepath, &H0, &data, attached, encoding)
BuildWrite ==
    /\ pc = "b_start"
    /\ \E w \in {write_nrrd(fs, wr.filepath, H0, wr.data, wr.T, wr.attached,
                           wr.encoding, wr.native)} :
          /\ fs' = w.fs
          /\ h' = IF w.ok THEN w.h ELSE h
          /\ pc' = IF w.ok THEN "written" ELSE "panic"
    /\ UNCHANGED <<H0, lines0, lines, text, text2, df, paths, wr, rd, opened, decoded>>

BuildNext ==
    BuildNewFromDims \/ BuildNewFromTypeDims \/ ParseMinimal \/ ParseFull \/ BuildWrite

SpecBuild == BuildInit /\ [][BuildNext]_vars

\* C17 (as claimed): every record handed out by from_lines_minimal,
\* from_lines_full, new_from_dims, new_from_type_dims and write_nrrd has type
\* block exactly when it has a block size.
C17_BlockIffBlockSize ==
    pc \in {"new", "typed", "minimal", "full", "written"} =>
        (h.dtype = "Block" <=> h.block_size # None)

\* the same for the records of from_lines_minimal, from_lines_full and
\* new_from_dims
C17_ParsedBlockIffBlockSize ==
    pc \in {"typed", "written"} \/ C17_BlockIffBlockSize

\* the bytes of the header file of the write: the whole header file of a
\* detached write, the front of the file of an attached write
WrittenHeaderBytes ==
    IF wr.attached
    THEN SubSeq(fs[with_extension(wr.filepath, "nrrd")], 1, Len(as_bytes(HeaderText(h))))
    ELSE fs[with_extension(wr.filepath, "nhdr")]

\* C20: write_nrrd writes the header that has the element type of the data
\* as type, the native byte order as endian, the requested encoding, no line
\* skip, no byte skip, no data file when attached and a single-file data
\* file when detached, and in every other field the value of the reference
\* header, which the write leaves as it is.
C20_WriteFrame ==
    /\ [][pc' = "written" => H0' = H0]_vars
    /\ [](pc = "written" =>
            /\ h.dtype = NRRDType_dtype(wr.T)
            /\ h.endian = wr.native
            /\ h.encoding = wr.encoding
            /\ h.line_skip = None /\ h.byte_skip = None
            /\ IF wr.attached THEN h.data_file = None
               ELSE h.data_file # None /\ h.data_file[1].kind = "SingleFile"
            /\ \A f \in DOMAIN H0 \ {"dtype", "endian", "encoding", "line_skip",
                                      "byte_skip", "data_file"} : h[f] = H0[f]
            /\ WrittenHeaderBytes = as_bytes(HeaderText(h)))

\* C20 witness: a detached write from a reference header with a data file,
\* a line skip and a byte skip of its own.
C20_Witness ==
    /\ pc = "written" /\ ~wr.attached
    /\ H0.line_skip # None /\ H0.byte_skip # None /\ H0.data_file # None
    /\ H0.data_file # h.data_file

\* the file of an attached write
AttachedFile == fs["d/out.nrrd"]

\* the payload of the write, encoded
WrittenPayload ==
    StoredPayload(wr.encoding,
                  cast_slice(wr.data, IF wr.T = "u8" THEN 1 ELSE 2, wr.native))

\* C22: the file of an attached write is the rendered header, one blank line
\* and the encoded payload, and read_until_blank from its start returns the
\* header and leaves the cursor on the first byte of the payload.
C22_BlankLineBeforePayload ==
    pc = "written" /\ wr.attached =>
        /\ AttachedFile = as_bytes(HeaderText(h)) \o <<10>> \o WrittenPayload
        /\ read_until_blank(AttachedFile, 0, <<>>) =
              [acc |-> as_bytes(HeaderText(h)),
               pos |-> Len(as_bytes(HeaderText(h))) + 1, blank |-> TRUE]

\* what the attached file does hold: the header and the payload right
\* behind its last line
C22_PayloadBehindHeader ==
    pc = "written" /\ wr.attached =>
        AttachedFile = as_bytes(HeaderText(h)) \o WrittenPayload

(***************************************************************************)
(* Specification SpecLines: headers with comment, byte skip, min, data     *)
(* file and unknown lines behind the mandatory lines are parsed and the    *)
(* record of the full parse is rendered.                                   *)
(***************************************************************************)
MaxLines == 2        \* lines behind the mandatory lines

CommentLines == {"# note", "#note", "#x", "#", "# k:=v", "k:=v"}

ByteSkipLines == {"byte skip: 3", "byte skip: -1", "byte skip: -5", "byteskip: 0",
                  "line skip: 1"}

UnknownLines == {"foo bar", "measurement frame: 1", "data file: LIST",
                 "data file: a.raw", "content: c"}

MinLines == {"min: 1.5", "min: 2.5", "old min: -0.5", "oldmin: 3", "max: 9"}

DataFileLines == {"data file: a.raw", "data file: myLIST.raw",
                  "data file: vol 1 2 3.raw", "data file: LIST",
                  "data file: LIST 2", "data file: f%d.raw 1 2 1",
                  "data file: k:=v.raw"}

LineGroups == {CommentLines, ByteSkipLines, UnknownLines, MinLines, DataFileLines}

LinesInit ==
    /\ pc = "start"
    /\ H0 = ShuffleBase
    /\ \E g \in LineGroups : \E q \in {<<>>} \cup SeqsUpTo(g, MaxLines) :
          /\ lines0 = MandatoryLines(H0) \o q
          /\ lines = lines0
    /\ h = NoHeader
    /\ text = Idle /\ text2 = Idle
    /\ df = Idle /\ paths = <<>> /\ fs = Idle /\ wr = Idle /\ rd = Idle
    /\ opened = <<>> /\ decoded = <<>>

\* h.to_string() on the record of the full parse
LinesRender ==
    /\ pc = "full"
    /\ text' = HeaderText(h)
    /\ pc' = "rendered"
    /\ UNCHANGED <<H0, lines0, lines, h, text2, df, paths, fs, wr, rd, opened, decoded>>

LinesNext == ParseMinimal \/ ParseFull \/ LinesRender

SpecLines == LinesInit /\ [][LinesNext]_vars

\* the lines behind the mandatory lines
GivenLines == SubSeq(lines0, Len(MandatoryLines(H0)) + 1, Len(lines0))

\* the full parse has returned a record
Parsed == pc \in {"full", "rendered"}

\* the text of a comment line: what follows the '#', without the blanks
\* around it
CommentText(l) == Trim(Drop(l, 1))

IsHashLine(l) == StartsWith(l, "#")

HasText(l) == IsHashLine(l) /\ CommentText(l) # ""

\* C24: every line that begins with '#' is taken out of the collection, those
\* with a text are the comments of the record, in input order and with their
\* text, and are rendered right behind the magic line; no key of the
\* key/value map begins with '#'.
C24_HashLinesAreComments ==
    Parsed =>
        /\ \A i \in 1..Len(lines) : ~IsHashLine(lines[i])
        /\ Len(h.comments) = Len(SelectSeq(GivenLines, HasText))
        /\ \A i \in 1..Len(h.comments) :
              CommentText(h.comments[i]) = CommentText(SelectSeq(GivenLines, HasText)[i])
        /\ \A k \in DOMAIN h.key_vals : ~IsHashLine(k)
        /\ pc = "rendered" =>
              SubSeq(Lines(text), 2, Len(h.comments) + 1) = h.comments

\* a comment line with a blank behind the '#' and without ":=", or a line
\* that is no comment
IsSpacedLine(l) ==
    IsHashLine(l) => (l = "#" \/ StartsWith(l, "# ")) /\ ~Contains(l, ":=")

\* the same for comment lines written "# text", without ":="
C24_SpacedCommentsKept ==
    (\A i \in 1..Len(GivenLines) : IsSpacedLine(GivenLines[i]))
        => C24_HashLinesAreComments

\* the first of the given lines that is a byte skip line, "" when none is
FirstByteSkipLine ==
    LET q == SelectSeq(GivenLines, LAMBDA l : StartsWith(l, "byte skip: ")
                                                \/ StartsWith(l, "byteskip: "))
    IN  IF q = <<>> THEN "" ELSE q[1]

\* the integer written on a byte skip line of the inputs
WrittenSkip(l) ==
    CASE l = "byte skip: 3" -> 3
      [] l = "byte skip: -1" -> -1
      [] l = "byte skip: -5" -> -5
      [] l = "byteskip: 0" -> 0

\* C25: the byte skip of a parsed record is the tail sentinel if and only
\* if the line holds -1, it is a skip of n bytes for n >= 0, and the record is
\* rendered with "byte skip: -1" only when the line holds -1.
C25_SentinelIsMinusOne ==
    (Parsed /\ FirstByteSkipLine # "") =>
        /\ h.byte_skip = Some(Rev) <=> WrittenSkip(FirstByteSkipLine) = -1
        /\ WrittenSkip(FirstByteSkipLine) >= 0
              => h.byte_skip = Some(Skip(WrittenSkip(FirstByteSkipLine)))
        /\ (pc = "rendered" /\ WrittenSkip(FirstByteSkipLine) # -1)
              => \A i \in 1..Len(Lines(text)) : Lines(text)[i] # "byte skip: -1"

\* the same for the lines that hold -1 or a count
C25_CountOrMinusOne ==
    (FirstByteSkipLine # "" /\ WrittenSkip(FirstByteSkipLine) >= -1)
        => C25_SentinelIsMinusOne

\* a line of the inputs that is no field line, no key/value line, no comment
\* and no data file directive
IsUnknown(l) == l \in {"foo bar", "measurement frame: 1"}

NotUnknown(l) == ~IsUnknown(l)

IsDirectiveLine(l) == StartsWith(l, "data file: ") \/ StartsWith(l, "datafile: ")

\* the i-th given line stands behind a list directive that is the first
\* data file line
BehindList(i) ==
    \E j \in 1..(i - 1) :
        /\ GivenLines[j] \in {"data file: LIST", "data file: LIST 2"}
        /\ \A k \in 1..(j - 1) : ~IsDirectiveLine(GivenLines[k])

\* the full parse has ended, with a record or without
FullParseDone == pc \in {"full", "full_panic", "rendered"}

\* the unknown lines are left in their order and the parse gives the record
\* of the input without them
UnknownLinesLeft ==
    With(from_lines_full(SelectSeq(lines0, NotUnknown)), LAMBDA base :
        base.ok =>
            /\ pc # "full_panic"
            /\ h = base.h
            /\ SelectSeq(lines, IsUnknown) = SelectSeq(GivenLines, IsUnknown)
            /\ SelectSeq(lines, NotUnknown) = base.lines)

\* C26 (as claimed): every line that is no field line, no key/value line, no
\* comment and no data file directive is left in the collection by the full
\* parse, in its order and without an error, and the record is that of the
\* input without the line.
C26_UnknownLinesLeft == FullParseDone => UnknownLinesLeft

\* C26 (amended): the same for the unknown lines that do not stand behind a
\* list directive; an unknown line behind the list directive is taken as a
\* path of the list.
C26_UnknownLinesLeftUnlessListed ==
    (/\ FullParseDone
     /\ \A i \in 1..Len(GivenLines) : IsUnknown(GivenLines[i]) => ~BehindList(i))
        => UnknownLinesLeft

\* C26 witness: an unknown line in front of a list directive is left in the
\* collection, the directive taken.
C26_Witness ==
    /\ pc = "full"
    /\ GivenLines = <<"foo bar", "data file: LIST">>
    /\ lines = <<"foo bar">>
    /\ h.data_file # None

\* an unknown line behind the list directive is a path of the list
C26_ListedUnknownIsPath ==
    (pc = "full" /\ GivenLines = <<"data file: LIST", "foo bar">>) =>
        /\ lines = <<>>
        /\ h.data_file[1].file_paths = <<"foo bar">>

(***************************************************************************)
(* Specification SpecBlank: read_until_blank on a file of a few bytes,     *)
(* from every position of the file.                                        *)
(***************************************************************************)
MaxBytes == 4        \* bytes of the file

\* line feed, carriage return and a letter
FileBytes == {10, 13, 65}

BlankInit ==
    /\ pc = "start"
    /\ \E bs \in {<<>>} \cup SeqsUpTo(FileBytes, MaxBytes) : \E p \in 0..Len(bs) :
          rd = [bytes |-> bs, start |-> p, acc |-> <<>>, pos |-> p, blank |-> FALSE]
    /\ H0 = NoHeader /\ h = NoHeader
    /\ lines0 = <<>> /\ lines = <<>>
    /\ text = Idle /\ text2 = Idle
    /\ df = Idle /\ paths = <<>> /\ fs = Idle /\ wr = Idle
    /\ opened = <<>> /\ decoded = <<>>

\* io::read_until_blank(&mut f) with the cursor of f at rd.start
BlankRead ==
    /\ pc = "start"
    /\ \E r \in {read_until_blank(rd.bytes, rd.start, <<>>)} :
          rd' = [rd EXCEPT !.acc = r.acc, !.pos = r.pos, !.blank = r.blank]
    /\ pc' = "read"
    /\ UNCHANGED <<H0, lines0, lines, h, text, text2, df, paths, fs, wr, opened, decoded>>

BlankNext == BlankRead

SpecBlank == BlankInit /\ [][BlankNext]_vars

\* the bytes of the file from the start of the read
Ahead == SubSeq(rd.bytes, rd.start + 1, Len(rd.bytes))

\* q is found in s at offset i
FoundAt(q, s, i) == i + Len(q) <= Len(s) /\ SubSeq(s, i + 1, i + Len(q)) = q

\* s has a blank line: "\n" or "\r\n" at its start or behind a line feed
HasBlankLine(s) ==
    \/ FoundAt(<<10>>, s, 0) \/ FoundAt(<<13, 10>>, s, 0)
    \/ \E i \in 0..Len(s) : FoundAt(<<10, 10>>, s, i) \/ FoundAt(<<10, 13, 10>>, s, i)

\* C27: when the bytes ahead have a blank line, the read returns whole lines
\* without a blank line among them, the blank line follows them in the file,
\* the cursor stands right behind it and the offset is reported; when they
\* have none, it returns all the bytes ahead, reports no offset and leaves the
\* cursor at the end of the file.
C27_ReadsUpToBlankLine ==
    pc = "read" =>
        IF HasBlankLine(Ahead)
        THEN /\ rd.blank
             /\ rd.acc = <<>> \/ rd.acc[Len(rd.acc)] = 10
             /\ ~HasBlankLine(rd.acc)
             /\ \E b \in {<<10>>, <<13, 10>>} :
                   /\ FoundAt(rd.acc \o b, Ahead, 0)
                   /\ rd.pos = rd.start + Len(rd.acc) + Len(b)
        ELSE /\ ~rd.blank
             /\ rd.acc = Ahead
             /\ rd.pos = Len(rd.bytes)

\* C27 witness: a read has returned one line, stopped at the "\r\n" line
\* behind it and left the cursor behind that line.
C27_Witness ==
    /\ pc = "read"
    /\ rd.bytes = <<65, 10, 13, 10>> /\ rd.start = 0
    /\ rd.acc = <<65, 10>> /\ rd.pos = 4 /\ rd.blank

IsMinLine(l) == StartsWith(l, "min: ")

IsOldMinLine(l) == StartsWith(l, "old min: ") \/ StartsWith(l, "oldmin: ")

\* the number written on a min or old min line
WrittenMin(l) ==
    ParseF64(Trim(Drop(l, IF StartsWith(l, "old min: ") THEN 9
                          ELSE IF StartsWith(l, "oldmin: ") THEN 8 ELSE 5))).v

\* the field read from the first line of its kind, None without such a line
FirstOf(q) == IF q = <<>> THEN None ELSE Some(WrittenMin(q[1]))

\* C28: min is the value of the first "min: " line and old min that of the
\* first "old min: " or "oldmin: " line, that line is taken out of the
\* collection, and an old min that is set is rendered on a line of its own
\* prefix.
C28_MinAndOldMinApart ==
    Parsed =>
        /\ h.min = FirstOf(SelectSeq(GivenLines, IsMinLine))
        /\ h.old_min = FirstOf(SelectSeq(GivenLines, IsOldMinLine))
        /\ SelectSeq(GivenLines, IsOldMinLine) # <<>>
              => SelectSeq(lines, IsOldMinLine)
                    = Tail(SelectSeq(GivenLines, IsOldMinLine))
        /\ (pc = "rendered" /\ h.old_min # None)
              => \E i \in 1..Len(Lines(text)) : IsOldMinLine(Lines(text)[i])

\* the same for headers with one "min: " line at most and no old min line
C28_OneMinKept ==
    (/\ Len(SelectSeq(GivenLines, IsMinLine)) <= 1
     /\ SelectSeq(GivenLines, IsOldMinLine) = <<>>)
        => C28_MinAndOldMinApart

\* the first of the given lines that is a data file line, "" when none is
FirstDirectiveLine ==
    LET q == SelectSeq(GivenLines, IsDirectiveLine)
    IN  IF q = <<>> THEN "" ELSE q[1]

\* the directive a data file line of the inputs stands for, its value taken
\* as a whole; a list without its paths
Classified(l) ==
    CASE l = "data file: LIST" -> List(None, <<>>)
      [] l = "data file: LIST 2" -> List(Some(2), <<>>)
      [] l = "data file: f%d.raw 1 2 1" -> FileFormat("f%d.raw", 1, 2, 1, None)
      [] OTHER -> SingleFile(Drop(l, 11))

\* C29: the directive of a parsed record is the explicit list only for LIST
\* with or without a sub-dimension, the numbered sequence only for
\* "format min max step", and the single file with the path as written for
\* every other value; no data file line is taken as a key/value pair.
C29_ClassifiedAsAWhole ==
    (Parsed /\ FirstDirectiveLine # "") =>
        /\ h.data_file # None
        /\ [h.data_file[1] EXCEPT !.file_paths = <<>>] = Classified(FirstDirectiveLine)
        /\ \A k \in DOMAIN h.key_vals : ~IsDirectiveLine(k)

\* the same for headers whose data file lines hold a.raw, LIST, LIST 2 or a
\* numbered sequence
C29_PlainValuesClassified ==
    (\A i \in 1..Len(GivenLines) :
        IsDirectiveLine(GivenLines[i])
            => GivenLines[i] \in {"data file: a.raw", "data file: LIST",
                                  "data file: LIST 2", "data file: f%d.raw 1 2 1"})
        => C29_ClassifiedAsAWhole

\* product(sizes)
SizesProduct(sz) == IF Len(sz) = 1 THEN sz[1] ELSE sz[1] * sz[2]

\* the byte length of the data of the write differs from product(sizes) of
\* the reference header times the element size of the type the write sets
LengthDiffers ==
    Len(wr.data) * (IF wr.T = "u8" THEN 1 ELSE 2)
        # SizesProduct(H0.sizes) * DType_size(NRRDType_dtype(wr.T))

\* C30: a write fails if and only if the byte length of the data differs
\* from product(sizes) * element size, and a write that fails leaves the files
\* as they were: no file is created.
C30_FailsBeforeCreate ==
    /\ [](pc \in {"written", "panic"} /\ wr # NoWrite =>
            /\ pc = "panic" <=> LengthDiffers
            /\ pc = "panic" => DOMAIN fs = {})
    /\ [][pc' = "panic" => fs' = fs]_vars

\* C30 witness: a detached write of data one element short has failed.
C30_Witness ==
    /\ pc = "panic" /\ wr # NoWrite /\ ~wr.attached
    /\ Len(wr.data) = MaxElems - 1
    /\ LengthDiffers

====
